---- MODULE Spec2Model ----
(***************************************************************************)
(* A model of lbsd, a single-table store kept in a paged file.             *)
(*                                                                         *)
(* The repository holds two implementations of Table / Pager / cursor:     *)
(*   - src/src/main.rs  : the one the binary is built from (main.rs        *)
(*     declares only `mod tree`): Table::new, Pager, TCursor,              *)
(*     execute_insert, execute_select, _main.  It works on the root leaf   *)
(*     alone and answers TableFull when that leaf is full.                 *)
(*   - src/src/table.rs : Table::new with root discovery, Pager with       *)
(*     split_and_insert, Cursor with descent and sibling walk.  Nothing    *)
(*     in src/ calls Cursor::split_and_insert; the insert entry point      *)
(*     that does is modelled from the specification (ExecuteInsertTable).  *)
(* The variable impl records which of the two a run uses.                  *)
(*                                                                         *)
(* Pages are modelled at the granularity of their fields ("words"), with   *)
(* byte-accurate offsets and lengths.  A serialized page is a record       *)
(* [len, words]: len is its length in bytes, words the field values in     *)
(* the order they are written, with trailing zero fields dropped (bytes    *)
(* past the last word and before len are zero).                            *)
(***************************************************************************)
EXTENDS Integers, Sequences, FiniteSets, TLC

(***************************************************************************)
(* Bounds of the model.                                                    *)
(***************************************************************************)
\* Page size in bytes. The source uses 4096 (main.rs:184), which gives 13
\* cells per leaf; the model scales the page down so that a leaf holds 3
\* cells and splits are within reach of the model checker. Every other size
\* below is the source's.
PAGE_SIZE == 1024
\* Keys (the id column) range over 1..MaxKey.
MaxKey == 4
\* Column contents range over 1..MaxName (0 is the all-zero field).
MaxName == 2
\* How many times the file is opened in one run of the model.
MaxSessions == 2
\* A statement is issued only while the pager holds at most MaxPages pages
\* (the tree of table.rs grows without limit: see ExecuteInsertTable).
MaxPages == 3
\* Buffers given to the deserializer alone are 0..MaxBufLen bytes long (or a
\* whole page) and their fields range over 0..MaxWord.
MaxBufLen == 14
MaxWord == 2
\* Nodes given to serialize have fields 0 or MaxCellWord, and Internal nodes
\* at most MaxInternalCells cells (or all INTERNAL_MAX_CELLS of them).
MaxCellWord == 2
MaxInternalCells == 3
\* Leaves given to find_insert_position alone have keys in 1..MaxSearchKey.
MaxSearchKey == 6
\* Usernames and emails given to prepare_statement are at most MaxOver
\* bytes longer than their columns.
MaxOver == 2
\* Leaves given to split_and_insert alone have keys in 1..MaxSplitKey.
MaxSplitKey == 7
\* Files given to get_page alone have at most MaxFilePages pages.
MaxFilePages == 2
\* A table grown by ascending inserts alone takes the keys 1..MaxGrowKey.
MaxGrowKey == 200

(***************************************************************************)
(* Program constants.                                                      *)
(***************************************************************************)
COLUMN_USERNAME_SIZE == 32
COLUMN_EMAIL_SIZE == 255
ID_SIZE == 4
ROW_SIZE == ID_SIZE + COLUMN_USERNAME_SIZE + COLUMN_EMAIL_SIZE
TABLE_MAX_PAGES == 100

NODE_TYPE_SIZE == 1
IS_ROOT_SIZE == 1
NUM_CELLS_SIZE == 4
NODE_HEADER_SIZE == NODE_TYPE_SIZE + IS_ROOT_SIZE + NUM_CELLS_SIZE
NODE_KEY_SIZE == 4
NODE_CELL_SIZE == NODE_KEY_SIZE + ROW_SIZE
NODE_SPACE_FOR_CELLS == PAGE_SIZE - NODE_HEADER_SIZE
NODE_MAX_CELLS == NODE_SPACE_FOR_CELLS \div NODE_CELL_SIZE

INTERNAL_SPACE_FOR_CELLS == PAGE_SIZE - 1 - 1 - 4 - 4 - 4
INTERNAL_CELL_SIZE == 8
INTERNAL_MAX_CELLS == INTERNAL_SPACE_FOR_CELLS \div INTERNAL_CELL_SIZE

LEAF_NODE_RIGHT_SPLIT_COUNT == (NODE_MAX_CELLS + 1) \div 2
LEAF_NODE_LEFT_SPLIT_COUNT == (NODE_MAX_CELLS + 1) - LEAF_NODE_RIGHT_SPLIT_COUNT

\* Bytes serialize writes before the cells: node_type u8, is_root u8,
\* parent u32, num_cells u32 (and right_child u32 for an Internal).
LeafHeaderBytes == 1 + 1 + 4 + 4
InternalHeaderBytes == 1 + 1 + 4 + 4 + 4

(***************************************************************************)
(* Rows and nodes.                                                         *)
(***************************************************************************)
Keys == 1..MaxKey
Names == 1..MaxName

\* Row { id, username, email }; a column is the code of its content.
Row(id, username, email) == [id |-> id, username |-> username, email |-> email]
\* Row::default()
RowDefault == Row(0, 0, 0)

KV(key, value) == [key |-> key, value |-> value]
KC(child, key) == [child |-> child, key |-> key]

LeafNode(is_root, parent, num_cells, key_values) ==
    [node_type |-> "Leaf", is_root |-> is_root, parent |-> parent,
     num_cells |-> num_cells, key_values |-> key_values]

InternalNode(is_root, parent, num_keys, right_child, key_children) ==
    [node_type |-> "Internal", is_root |-> is_root, parent |-> parent,
     num_keys |-> num_keys, right_child |-> right_child,
     key_children |-> key_children]

\* BTreeInternalNode::default() = BTreeInternalNode::new(0, 0)
InternalDefault == InternalNode(0, 0, 0, 0, <<>>)

IsLeaf(n) == n.node_type = "Leaf"
IsInternal(n) == n.node_type = "Internal"

(***************************************************************************)
(* Page format: BTreeNode::serialize and From<&[u8]> for BTreeNode.        *)
(***************************************************************************)
Max(a, b) == IF a >= b THEN a ELSE b

RECURSIVE Trim(_)
\* The words of a buffer without its trailing zero fields.
Trim(ws) ==
    IF ws = <<>> THEN ws
    ELSE IF ws[Len(ws)] = 0 THEN Trim(SubSeq(ws, 1, Len(ws) - 1))
    ELSE ws

RECURSIVE LeafCellWords(_)
\* key u32, then Row::serialize: id u32, username, email.
LeafCellWords(kvs) ==
    IF kvs = <<>> THEN <<>>
    ELSE <<kvs[1].key, kvs[1].value.id, kvs[1].value.username, kvs[1].value.email>>
         \o LeafCellWords(Tail(kvs))

RECURSIVE InternalCellWordsSwapped(_)
\* Cells written key first, then child.
InternalCellWordsSwapped(kcs) ==
    IF kcs = <<>> THEN <<>>
    ELSE <<kcs[1].key, kcs[1].child>> \o InternalCellWordsSwapped(Tail(kcs))

RECURSIVE InternalCellWords(_)
\* child u32, then key u32.
InternalCellWords(kcs) ==
    IF kcs = <<>> THEN <<>>
    ELSE <<kcs[1].child, kcs[1].key>> \o InternalCellWords(Tail(kcs))

\* serialize writing a third u32 with every cell of an Internal node.
SerializedBytesThreeWords(n) ==
    IF IsLeaf(n) THEN LeafHeaderBytes + Len(n.key_values) * (NODE_KEY_SIZE + ROW_SIZE)
    ELSE InternalHeaderBytes + Len(n.key_children) * (INTERNAL_CELL_SIZE + 4)

\* The bytes serialize writes before padding.
SerializedBytes(n) ==
    IF IsLeaf(n) THEN LeafHeaderBytes + Len(n.key_values) * (NODE_KEY_SIZE + ROW_SIZE)
    ELSE InternalHeaderBytes + Len(n.key_children) * INTERNAL_CELL_SIZE

\* serialize without the padding to PAGE_SIZE.
SerializeUnpadded(n) ==
    LET words == IF IsLeaf(n)
                 THEN <<0, n.is_root, n.parent, n.num_cells>> \o LeafCellWords(n.key_values)
                 ELSE <<1, n.is_root, n.parent, n.num_keys, n.right_child>>
                      \o InternalCellWords(n.key_children)
    IN [len |-> SerializedBytes(n), words |-> Trim(words)]

\* BTreeNode::serialize: the fields, then zero padding up to PAGE_SIZE when
\* the fields are shorter than a page.
Serialize(n) ==
    LET words == IF IsLeaf(n)
                 THEN <<0, n.is_root, n.parent, n.num_cells>> \o LeafCellWords(n.key_values)
                 ELSE <<1, n.is_root, n.parent, n.num_keys, n.right_child>>
                      \o InternalCellWords(n.key_children)
    IN [len |-> Max(PAGE_SIZE, SerializedBytes(n)), words |-> Trim(words)]

\* A buffer of n zero bytes.
ZeroBuf(n) == [len |-> n, words |-> <<>>]

\* The outcome of an operation that may panic.
Panicked == [panic |-> TRUE, node |-> LeafNode(0, 0, 0, <<>>)]
Returned(n) == [panic |-> FALSE, node |-> n]

\* The i-th field of a buffer (zero past the last non-zero field).
Word(buf, i) == IF i <= Len(buf.words) THEN buf.words[i] ELSE 0

\* The Internal arm of From<&[u8]>: num_keys, right_child, then num_keys
\* cells (child, key); every read_u32 must find its four bytes.
DecodeInternal(buf, is_root, parent, num_keys) ==
    IF buf.len < InternalHeaderBytes + num_keys * INTERNAL_CELL_SIZE THEN Panicked
    ELSE Returned(InternalNode(is_root, parent, num_keys, Word(buf, 5),
                     [i \in 1..num_keys |-> KC(Word(buf, 4 + 2 * i), Word(buf, 5 + 2 * i))]))

\* The Leaf arm of From<&[u8]>: num_cells, then num_cells cells (key, row);
\* the key's read_u32 must find its four bytes, the row read takes what the
\* buffer has left.
DecodeLeaf(buf, is_root, parent, num_cells) ==
    IF num_cells > 0
       /\ buf.len < LeafHeaderBytes + (num_cells - 1) * (NODE_KEY_SIZE + ROW_SIZE)
                    + NODE_KEY_SIZE
    THEN Panicked
    ELSE Returned(LeafNode(is_root, parent, num_cells,
                     [i \in 1..num_cells |->
                         KV(Word(buf, 1 + 4 * i),
                            Row(Word(buf, 2 + 4 * i), Word(buf, 3 + 4 * i),
                                Word(buf, 4 + 4 * i)))]))

\* From<&[u8]> once the buffer is chosen: node_type (NodeType::try_from),
\* is_root, parent and the count, each read panicking (expect) when its
\* bytes are past the end of the buffer.
DecodeNode(buf, node_type) ==
    IF node_type \notin {0, 1} THEN Panicked
    ELSE IF buf.len < LeafHeaderBytes THEN Panicked
    ELSE IF node_type = 1
         THEN DecodeInternal(buf, Word(buf, 2), Word(buf, 3), Word(buf, 4))
         ELSE DecodeLeaf(buf, Word(buf, 2), Word(buf, 3), Word(buf, 4))

\* The buffer From<&[u8]> reads: a buffer shorter than 6 bytes is replaced
\* by the literal [1, 1, 0, 0, 0, 0, 0, 0, 0, 0].
DecodeInput(buffer) ==
    IF buffer.len < 6 THEN [len |-> 10, words |-> <<1, 1>>] ELSE buffer

\* impl From<&[u8]> for BTreeNode
Deserialize(buffer) == DecodeNode(DecodeInput(buffer), Word(DecodeInput(buffer), 1))

(***************************************************************************)
(* State.                                                                  *)
(***************************************************************************)
VARIABLES
    impl,           \* "main" (main.rs) or "table" (table.rs): which code runs
    status,         \* "closed" | "open" | "ended" (the loop broke) | "aborted" (a panic)
    disk,           \* the backing file: the page images written so far
    fpos,           \* the file handle's position, in pages
    file_length,    \* Pager.file_length (bytes, read once by Pager::new)
    num_pages,      \* Pager.num_pages
    pages,          \* Pager.pages: page number -> cached node (absent = None)
    root_page_num,  \* Table.root_page_num
    last,           \* the last operation: its name, arguments and result
    rows,           \* the rows the last select returned
    acked,          \* history: rows whose insert returned Ok and that the
                    \* open table is expected to hold
    persisted,      \* history: acked, as of the last close that returned Ok
    sessions,       \* how many times the file was opened
    arg,            \* input of a pure-function specification
    ret             \* its result

vars == <<impl, status, disk, fpos, file_length, num_pages, pages, root_page_num,
          last, rows, acked, persisted, sessions, arg, ret>>

\* Option::None of a page number.
None == -1
NoPages == <<>>
NoOp == [op |-> "none", key |-> 0, has_row |-> FALSE, stored |-> FALSE,
         result |-> "none"]
Op(op, key, has_row, result) ==
    [op |-> op, key |-> key, has_row |-> has_row, stored |-> FALSE,
     result |-> result]

\* The file is read and written a page at a time at page offsets.
FileLength(d) == Len(d) * PAGE_SIZE

(***************************************************************************)
(* tree.rs: leaf and internal node operations.                             *)
(***************************************************************************)
\* A Vec::insert that ignores the index and puts the element first.
InsertAtFront(s, index, x) == <<x>> \o s

\* A Vec::insert that ignores the index and pushes at the end.
InsertAtEnd(s, index, x) == Append(s, x)

InsertAt(s, index, x) == SubSeq(s, 1, index) \o <<x>> \o SubSeq(s, index + 1, Len(s))

\* insert_at without the increment of num_cells.
LeafInsertAtUncounted(leaf, index, key, value) ==
    [leaf EXCEPT !.key_values = InsertAt(leaf.key_values, index, KV(key, value))]

\* BTreeLeafNode::insert_at (index is 0-based; Vec::insert panics past the end)
LeafInsertAt(leaf, index, key, value) ==
    [leaf EXCEPT !.key_values = InsertAt(leaf.key_values, index, KV(key, value)),
                 !.num_cells = leaf.num_cells + 1]

\* BTreeLeafNode::is_max
IsMax(leaf) == leaf.num_cells >= NODE_MAX_CELLS

\* BTreeLeafNode::max_key
LeafMaxKey(key_values) ==
    IF key_values = <<>> THEN 0 ELSE key_values[Len(key_values)].key

RECURSIVE InternalSearch(_, _, _, _)
\* The loop of BTreeInternalNode::find_insert_position.
InternalSearch(key_children, key, left, right) ==
    IF left = right THEN left
    ELSE IF key_children[((left + right) \div 2) + 1].key >= key
         THEN InternalSearch(key_children, key, left, (left + right) \div 2)
         ELSE InternalSearch(key_children, key, ((left + right) \div 2) + 1, right)

\* BTreeInternalNode::find_insert_position
InternalFindInsertPosition(node, key) ==
    InternalSearch(node.key_children, key, 0, Len(node.key_children))

\* find_key with <= for its test: an index equal to the length of
\* key_children takes the indexing branch and is out of bounds.
FindKeyAtInclusive(node, index) ==
    IF Len(node.key_children) <= index
    THEN [panic |-> TRUE, page |-> 0]
    ELSE [panic |-> FALSE, page |-> node.right_child]

\* BTreeInternalNode::find_key once index is known: the page to descend
\* into, or a panic (an index past the end of key_children).
FindKeyAt(node, index) ==
    IF Len(node.key_children) < index
    THEN [panic |-> TRUE, page |-> 0]
    ELSE [panic |-> FALSE, page |-> node.right_child]

\* BTreeInternalNode::find_key
FindKey(node, key) == FindKeyAt(node, InternalFindInsertPosition(node, key))

\* BTreeInternalNode::insert; panics (unimplemented!) on a full node.
InternalInsert(node, key, child) ==
    IF node.num_keys >= INTERNAL_MAX_CELLS THEN Panicked
    ELSE Returned([node EXCEPT
             !.key_children = InsertAt(node.key_children,
                                       InternalFindInsertPosition(node, key),
                                       KC(child, key)),
             !.num_keys = node.num_keys + 1])

RECURSIVE LeafSearchStale(_, _, _, _, _)
\* The loop with cell_num assigned before `left` moves right.
LeafSearchStale(key_values, key, left, right, cell_num) ==
    IF left = right THEN [panic |-> FALSE, cell_num |-> cell_num, left |-> left]
    ELSE IF ((left + right) \div 2) + 1 > Len(key_values)
         THEN [panic |-> TRUE, cell_num |-> cell_num, left |-> left]
    ELSE IF key = key_values[((left + right) \div 2) + 1].key
         THEN [panic |-> FALSE, cell_num |-> (left + right) \div 2, left |-> left]
    ELSE IF key < key_values[((left + right) \div 2) + 1].key
         THEN LeafSearchStale(key_values, key, left, (left + right) \div 2, left)
         ELSE LeafSearchStale(key_values, key, ((left + right) \div 2) + 1, right, left)

RECURSIVE LeafSearch(_, _, _, _, _)
\* The loop of Cursor::find_insert_position / TCursor::find_insert_position
\* on a leaf: the cell index, and `left` when the loop ends.
LeafSearch(key_values, key, left, right, cell_num) ==
    IF left = right THEN [panic |-> FALSE, cell_num |-> cell_num, left |-> left]
    ELSE IF ((left + right) \div 2) + 1 > Len(key_values)
         THEN [panic |-> TRUE, cell_num |-> cell_num, left |-> left]
    ELSE IF key = key_values[((left + right) \div 2) + 1].key
         THEN [panic |-> FALSE, cell_num |-> (left + right) \div 2, left |-> left]
    ELSE IF key < key_values[((left + right) \div 2) + 1].key
         THEN LeafSearch(key_values, key, left, (left + right) \div 2, left)
         ELSE LeafSearch(key_values, key, ((left + right) \div 2) + 1, right,
                         ((left + right) \div 2) + 1)

(***************************************************************************)
(* Pager. An operation works on a pager value                              *)
(*   [pages, fpos, num_pages, file_length, panic]                          *)
(* and returns the pager it leaves; panic is set when the code panics.     *)
(***************************************************************************)
PagerOf(pgs, pos, n, length) ==
    [pages |-> pgs, fpos |-> pos, num_pages |-> n, file_length |-> length,
     panic |-> FALSE]
ThePager == PagerOf(pages, fpos, num_pages, file_length)
Panic(pg) == [pg EXCEPT !.panic = TRUE]
Cached(pg, n) == n \in DOMAIN pg.pages
SetPage(pg, n, node) ==
    [pg EXCEPT !.pages = [p \in DOMAIN pg.pages \cup {n} |->
                              IF p = n THEN node ELSE pg.pages[p]]]

\* Pager::new: num_pages = max(ceil(file_length / PAGE_SIZE), 1)
InitialNumPages(length) == Max((length + PAGE_SIZE - 1) \div PAGE_SIZE, 1)

\* get_page reading from the start of the file when it does not seek.
ReadPositionRewound(pg, page_num) ==
    IF page_num <= (pg.file_length \div PAGE_SIZE)
                   + (IF pg.file_length % PAGE_SIZE # 0 THEN 1 ELSE 0)
    THEN page_num
    ELSE 0

\* get_page: where the read happens. The handle is moved to the page's
\* offset only when page_num <= ceil(file_length / PAGE_SIZE); otherwise
\* the read is at the position the handle was left at.
ReadPosition(pg, page_num) ==
    IF page_num <= (pg.file_length \div PAGE_SIZE)
                   + (IF pg.file_length % PAGE_SIZE # 0 THEN 1 ELSE 0)
    THEN page_num
    ELSE pg.fpos

\* get_page: the buffer file.read fills at position pos (zero when the
\* position is at or past the end of the file).
ReadBuffer(pos) == IF pos < Len(disk) THEN disk[pos + 1] ELSE ZeroBuf(PAGE_SIZE)

\* get_page: the node is built from the buffer and cached.
CachePage(pg, page_num, d) ==
    IF d.panic THEN Panic(pg) ELSE SetPage(pg, page_num, d.node)

\* get_page: the read, which moves the handle past what it read.
ReadPage(pg, page_num, pos) ==
    CachePage([pg EXCEPT !.fpos = IF pos < Len(disk) THEN pos + 1 ELSE pos],
              page_num, Deserialize(ReadBuffer(pos)))

\* Pager::get_page (and get_page_mut, which calls it): the cached node, or
\* one read of the file.
GetPage(pg, page_num) ==
    IF pg.panic THEN pg
    ELSE IF page_num < 0 \/ page_num >= TABLE_MAX_PAGES THEN Panic(pg)
    ELSE IF Cached(pg, page_num) THEN pg
    ELSE ReadPage(pg, page_num, ReadPosition(pg, page_num))

\* Pager::new_internal_page_mut
NewInternalPage(pg, new_page_num) ==
    IF pg.panic THEN pg
    ELSE IF new_page_num >= TABLE_MAX_PAGES THEN Panic(pg)
    ELSE SetPage(pg, new_page_num, InternalDefault)

\* new_page_num without its increment: the next call returns the same
\* number.
AfterNewPageNumStuck(pg) == pg

\* new_page_num stepping over a page number.
AfterNewPageNumSkip(pg) == [pg EXCEPT !.num_pages = pg.num_pages + 2]

\* Pager::new_page_num returns pg.num_pages and leaves:
AfterNewPageNum(pg) == [pg EXCEPT !.num_pages = pg.num_pages + 1]

\* Pager::flush_page: the file with page i's serialized node written at the
\* handle's position (page offset i, as flush writes in order from 0).
FlushPage(pg, d, i) ==
    [k \in 1..Max(Len(d), i + 1) |-> IF k = i + 1 THEN Serialize(pg.pages[i]) ELSE d[k]]

RECURSIVE FlushFromSkipping(_, _, _)
\* A flush loop that passes over a page that is not cached, and returns Ok.
FlushFromSkipping(pg, d, i) ==
    IF i >= pg.num_pages THEN [disk |-> d, err |-> FALSE, fpos |-> i]
    ELSE IF ~Cached(pg, i) THEN FlushFromSkipping(pg, d, i + 1)
    ELSE FlushFromSkipping(pg, FlushPage(pg, d, i), i + 1)

RECURSIVE FlushFrom(_, _, _)
\* The loop of Pager::flush over pages i..num_pages-1: the file it leaves
\* and whether flush_page failed ("Page not exists") on the way. Pages
\* written before the failure stay written.
FlushFrom(pg, d, i) ==
    IF i >= pg.num_pages THEN [disk |-> d, err |-> FALSE, fpos |-> i]
    ELSE IF ~Cached(pg, i) THEN [disk |-> d, err |-> TRUE, fpos |-> i]
    ELSE FlushFrom(pg, FlushPage(pg, d, i), i + 1)

\* Pager::flush: seek to 0, then flush_page for every page below num_pages.
Flush(pg, d) == FlushFrom(pg, d, 0)

(***************************************************************************)
(* table.rs: Pager::split_and_insert, in the order of its statements.      *)
(***************************************************************************)
\* What split_and_insert returns: the pager it leaves and Some(new root) or
\* None.
SplitResult(pg, root) == [pg |-> pg, new_root |-> root]

\* The right half written over the leaf the parent's right_child names.
SplitRightOverRightChild(pg, right_page_num, parent_page_num, right_values, was_root) ==
    IF pg.panic THEN SplitResult(pg, None)
    ELSE SplitResult(
             SetPage(pg, pg.pages[parent_page_num].right_child,
                     [pg.pages[pg.pages[parent_page_num].right_child] EXCEPT
                         !.key_values = right_values,
                         !.num_cells = LEAF_NODE_RIGHT_SPLIT_COUNT,
                         !.parent = parent_page_num]),
             IF was_root THEN parent_page_num ELSE None)

\* The new right leaf: get_page_mut(right_page_num), then key_values,
\* num_cells and parent are set; Some(parent_page_num) when the split node
\* was the root.
SplitRight(pg, right_page_num, parent_page_num, right_values, was_root) ==
    IF pg.panic THEN SplitResult(pg, None)
    ELSE IF ~IsLeaf(pg.pages[right_page_num]) THEN SplitResult(Panic(pg), None)
    ELSE SplitResult(
             SetPage(pg, right_page_num,
                     [pg.pages[right_page_num] EXCEPT
                         !.key_values = right_values,
                         !.num_cells = LEAF_NODE_RIGHT_SPLIT_COUNT,
                         !.parent = parent_page_num]),
             IF was_root THEN parent_page_num ELSE None)

\* The new root stored without the split leaf's parent being set.
NewRootDoneNoParent(pg, parent_page_num, ins, page_num) ==
    IF pg.panic \/ ins.panic THEN Panic(pg)
    ELSE IF ~IsLeaf(pg.pages[page_num]) THEN Panic(pg)
    ELSE SetPage(pg, parent_page_num, ins.node)

\* The split node was the root: its new parent holds one cell
\* (left_max_key, page_num), and the split node's parent is set.
NewRootDone(pg, parent_page_num, ins, page_num) ==
    IF pg.panic \/ ins.panic THEN Panic(pg)
    ELSE IF ~IsLeaf(pg.pages[page_num]) THEN Panic(pg)
    ELSE SetPage(SetPage(pg, parent_page_num, ins.node), page_num,
                 [pg.pages[page_num] EXCEPT !.parent = parent_page_num])

\* The split node was the root: new_page_num, new_internal_page_mut, the
\* new parent takes is_root, parent and right_child, then insert.
NewRoot(pg, parent_page_num, page_num, right_page_num, original_is_root, original_parent, left_max_key) ==
    NewRootDone(NewInternalPage(AfterNewPageNum(pg), parent_page_num),
                parent_page_num,
                InternalInsert([InternalDefault EXCEPT
                                    !.is_root = original_is_root,
                                    !.parent = original_parent,
                                    !.right_child = right_page_num],
                               left_max_key, page_num),
                page_num)

\* The parent's right_child moved to the new leaf whatever it pointed at.
ParentDoneRepoint(pg, original_parent, ins, page_num, right_page_num) ==
    IF ins.panic THEN Panic(pg)
    ELSE SetPage(pg, original_parent, [ins.node EXCEPT !.right_child = right_page_num])

\* The split node had a parent: the cell is inserted, and right_child moves
\* to the new leaf when it pointed at the split node.
ParentDone(pg, original_parent, ins, page_num, right_page_num) ==
    IF ins.panic THEN Panic(pg)
    ELSE SetPage(pg, original_parent,
                 IF ins.node.right_child = page_num
                 THEN [ins.node EXCEPT !.right_child = right_page_num]
                 ELSE ins.node)

\* The split node had a parent: get_page_mut(original_parent) must be an
\* Internal node (unreachable! otherwise).
IntoParent(pg, original_parent, page_num, right_page_num, left_max_key) ==
    IF pg.panic THEN pg
    ELSE IF ~IsInternal(pg.pages[original_parent]) THEN Panic(pg)
    ELSE ParentDone(pg, original_parent,
                    InternalInsert(pg.pages[original_parent], left_max_key, page_num),
                    page_num, right_page_num)

\* After the left half is stored and right_page_num is taken: the parent,
\* then the right leaf.
SplitParent(pg, page_num, right_page_num, original_is_root, original_parent, left_max_key, right_values) ==
    IF original_is_root > 0
    THEN SplitRight(GetPage(NewRoot(pg, pg.num_pages, page_num, right_page_num,
                                    original_is_root, original_parent, left_max_key),
                            right_page_num),
                    right_page_num, pg.num_pages, right_values, TRUE)
    ELSE SplitRight(GetPage(IntoParent(GetPage(pg, original_parent), original_parent,
                                       page_num, right_page_num, left_max_key),
                            right_page_num),
                    right_page_num, original_parent, right_values, FALSE)

\* The split with the right half starting one cell late.
SplitCellsShort(pg, old_node, page_num, cur_kv) ==
    IF Len(cur_kv) < LEAF_NODE_LEFT_SPLIT_COUNT THEN SplitResult(Panic(pg), None)
    ELSE SplitParent(
             AfterNewPageNum(
                 SetPage(pg, page_num,
                         [old_node EXCEPT
                             !.key_values = SubSeq(cur_kv, 1, LEAF_NODE_LEFT_SPLIT_COUNT),
                             !.num_cells = LEAF_NODE_LEFT_SPLIT_COUNT,
                             !.is_root = 0])),
             page_num, pg.num_pages, old_node.is_root, old_node.parent,
             LeafMaxKey(SubSeq(cur_kv, 1, LEAF_NODE_LEFT_SPLIT_COUNT)),
             SubSeq(cur_kv, LEAF_NODE_LEFT_SPLIT_COUNT + 2, Len(cur_kv)))

\* The leaf keeps the first LEAF_NODE_LEFT_SPLIT_COUNT cells (split_at
\* panics on a shorter list) and stops being the root; right_page_num is
\* new_page_num().
SplitCells(pg, old_node, page_num, cur_kv) ==
    IF Len(cur_kv) < LEAF_NODE_LEFT_SPLIT_COUNT THEN SplitResult(Panic(pg), None)
    ELSE SplitParent(
             AfterNewPageNum(
                 SetPage(pg, page_num,
                         [old_node EXCEPT
                             !.key_values = SubSeq(cur_kv, 1, LEAF_NODE_LEFT_SPLIT_COUNT),
                             !.num_cells = LEAF_NODE_LEFT_SPLIT_COUNT,
                             !.is_root = 0])),
             page_num, pg.num_pages, old_node.is_root, old_node.parent,
             LeafMaxKey(SubSeq(cur_kv, 1, LEAF_NODE_LEFT_SPLIT_COUNT)),
             SubSeq(cur_kv, LEAF_NODE_LEFT_SPLIT_COUNT + 1, Len(cur_kv)))

\* The node to split: a leaf (unimplemented! otherwise), into which the new
\* cell is inserted first (Vec::insert panics past the end).
SplitNode(pg, page_num, cell_num, key, value) ==
    IF pg.panic THEN SplitResult(pg, None)
    ELSE IF ~IsLeaf(pg.pages[page_num]) THEN SplitResult(Panic(pg), None)
    ELSE IF cell_num > Len(pg.pages[page_num].key_values) THEN SplitResult(Panic(pg), None)
    ELSE SplitCells(pg, pg.pages[page_num], page_num,
                    InsertAt(pg.pages[page_num].key_values, cell_num, KV(key, value)))

\* Pager::split_and_insert
SplitAndInsert(pg, page_num, cell_num, key, value) ==
    SplitNode(GetPage(pg, page_num), page_num, cell_num, key, value)

(***************************************************************************)
(* Cursors: TCursor (main.rs) and Cursor (table.rs). A cursor value holds  *)
(* the pager it works on.                                                  *)
(***************************************************************************)
CursorAt(pg, page_num, cell_num, end_of_table) ==
    [pg |-> pg, page_num |-> page_num, cell_num |-> cell_num,
     end_of_table |-> end_of_table]

\* table_start taking an Internal root for the end of the table.
TableStartOnInternalEnds(pg, root) ==
    CursorAt(pg, root, 0,
             IF pg.panic THEN FALSE
             ELSE IsInternal(pg.pages[root]) \/ pg.pages[root].num_cells = 0)

\* table_start once the root page is fetched: end_of_table when the root is
\* a leaf without cells.
TableStartOn(pg, root) ==
    CursorAt(pg, root, 0,
             IF pg.panic THEN FALSE
             ELSE IsLeaf(pg.pages[root]) /\ pg.pages[root].num_cells = 0)

\* TCursor::table_start and Cursor::table_start (the same code)
TableStart(pg, root) == TableStartOn(GetPage(pg, root), root)

\* The cursor built with the end_of_table cursor_opts starts with.
LeafPositionAtInitial(pg, page_num, leaf, s) ==
    IF s.panic THEN CursorAt(Panic(pg), page_num, 0, FALSE)
    ELSE CursorAt(pg, page_num, s.cell_num, FALSE)

\* find_insert_position on a leaf, once the search is done.
LeafPositionAt(pg, page_num, leaf, s) ==
    IF s.panic THEN CursorAt(Panic(pg), page_num, 0, FALSE)
    ELSE CursorAt(pg, page_num, s.cell_num, leaf.num_cells = s.left)

\* find_insert_position on a leaf: the binary search over its cells.
LeafPosition(pg, page_num, key) ==
    LeafPositionAt(pg, page_num, pg.pages[page_num],
                   LeafSearch(pg.pages[page_num].key_values, key, 0,
                              pg.pages[page_num].num_cells, 0))

\* TCursor::find_insert_position once the root page is fetched
\* (unimplemented! on an Internal root).
TCursorPositionOn(pg, root, key) ==
    IF pg.panic THEN CursorAt(pg, root, 0, FALSE)
    ELSE IF IsInternal(pg.pages[root]) THEN CursorAt(Panic(pg), root, 0, FALSE)
    ELSE LeafPosition(pg, root, key)

\* TCursor::find_insert_position (main.rs): the root page only.
TCursorFindInsertPosition(pg, root, key) ==
    TCursorPositionOn(GetPage(pg, root), root, key)

RECURSIVE CursorFindInsertPosition(_, _, _, _)
\* Cursor::find_insert_position on an Internal page: descend into the page
\* find_key names. A descent through more pages than the table can hold
\* never returns (the recursion overflows the stack).
CursorDescend(pg, next, key, depth) ==
    IF next.panic \/ depth >= TABLE_MAX_PAGES
    THEN CursorAt(Panic(pg), 0, 0, FALSE)
    ELSE CursorFindInsertPosition(pg, next.page, key, depth + 1)

\* Cursor::find_insert_position once the page is fetched.
CursorPositionOn(pg, page_num, key, depth) ==
    IF pg.panic THEN CursorAt(pg, page_num, 0, FALSE)
    ELSE IF IsLeaf(pg.pages[page_num]) THEN LeafPosition(pg, page_num, key)
    ELSE CursorDescend(pg, FindKey(pg.pages[page_num], key), key, depth)

\* Cursor::find_insert_position (table.rs)
CursorFindInsertPosition(pg, page_num, key, depth) ==
    CursorPositionOn(GetPage(pg, page_num), page_num, key, depth)

RECURSIVE NextChild(_, _, _, _)
\* The loop of Cursor::advance over the parent's cells: next_child is set
\* by every cell that follows a cell whose child is page_num.
NextChild(key_children, page_num, is_next, next_child) ==
    IF key_children = <<>> THEN next_child
    ELSE NextChild(Tail(key_children), page_num,
                   is_next \/ key_children[1].child = page_num,
                   IF is_next THEN key_children[1].child ELSE next_child)

\* Cursor::advance: the page the cursor moves to (right_child when the
\* loop found no next child).
SiblingOf(parent, next_child) ==
    IF next_child = None THEN parent.right_child ELSE next_child

\* The move to the sibling without the test for the page the cursor was on.
AdvanceToSiblingAlways(pg, next, page_num, cell_num, end_of_table) ==
    CursorAt(pg, next, 0, end_of_table)

\* Cursor::advance: the move to the sibling; end_of_table when the sibling
\* is the page the cursor was on.
AdvanceToSibling(pg, next, page_num, cell_num, end_of_table) ==
    IF next = page_num THEN CursorAt(pg, next, cell_num, TRUE)
    ELSE CursorAt(pg, next, 0, end_of_table)

\* Cursor::advance past the last cell of a non-root leaf: its parent must
\* be an Internal node (unreachable! otherwise).
AdvanceToParent(pg, parent_num, page_num, cell_num, end_of_table) ==
    IF pg.panic THEN CursorAt(pg, parent_num, cell_num, end_of_table)
    ELSE IF ~IsInternal(pg.pages[parent_num])
         THEN CursorAt(Panic(pg), parent_num, cell_num, end_of_table)
    ELSE AdvanceToSibling(pg,
             SiblingOf(pg.pages[parent_num],
                       NextChild(pg.pages[parent_num].key_children, page_num,
                                 FALSE, None)),
             page_num, cell_num, end_of_table)

\* Cursor::advance on the cursor's node, cell_num already incremented
\* (unimplemented! on an Internal node).
AdvanceInNode(pg, node, page_num, cell_num, end_of_table) ==
    IF IsInternal(node) THEN CursorAt(Panic(pg), page_num, cell_num, end_of_table)
    ELSE IF cell_num < node.num_cells THEN CursorAt(pg, page_num, cell_num, end_of_table)
    ELSE IF node.is_root > 0 THEN CursorAt(pg, page_num, cell_num, TRUE)
    ELSE AdvanceToParent(GetPage(pg, node.parent), node.parent, page_num, cell_num,
                         end_of_table)

\* Cursor::advance once the cursor's page is fetched.
AdvanceOn(pg, cur) ==
    IF pg.panic THEN [cur EXCEPT !.pg = pg]
    ELSE AdvanceInNode(pg, pg.pages[cur.page_num], cur.page_num, cur.cell_num + 1,
                       cur.end_of_table)

\* Cursor::advance (table.rs)
CursorAdvance(cur) == AdvanceOn(GetPage(cur.pg, cur.page_num), cur)

\* TCursor::advance once the cursor's page is fetched (unimplemented! on an
\* Internal node).
TAdvanceOn(pg, cur) ==
    IF pg.panic THEN [cur EXCEPT !.pg = pg]
    ELSE IF IsInternal(pg.pages[cur.page_num])
         THEN CursorAt(Panic(pg), cur.page_num, cur.cell_num + 1, cur.end_of_table)
    ELSE CursorAt(pg, cur.page_num, cur.cell_num + 1,
                  cur.end_of_table
                  \/ cur.cell_num + 1 >= pg.pages[cur.page_num].num_cells)

\* TCursor::advance (main.rs)
TCursorAdvance(cur) == TAdvanceOn(GetPage(cur.pg, cur.page_num), cur)

\* get_row once the cursor's page is fetched: unimplemented! on an Internal
\* node, an index panic past the last cell.
GetRowOn(pg, page_num, cell_num) ==
    IF pg.panic THEN [pg |-> pg, row |-> RowDefault]
    ELSE IF IsInternal(pg.pages[page_num]) THEN [pg |-> Panic(pg), row |-> RowDefault]
    ELSE IF cell_num >= Len(pg.pages[page_num].key_values)
         THEN [pg |-> Panic(pg), row |-> RowDefault]
    ELSE [pg |-> pg, row |-> pg.pages[page_num].key_values[cell_num + 1].value]

\* TCursor::get_row and Cursor::get_row (the same code)
GetRow(cur) == GetRowOn(GetPage(cur.pg, cur.page_num), cur.page_num, cur.cell_num)

(***************************************************************************)
(* Table::new                                                              *)
(***************************************************************************)
\* Pager::new on the file: nothing cached, the handle at 0.
PagerNew == PagerOf(NoPages, 0, InitialNumPages(FileLength(disk)), FileLength(disk))

Opened(pg, root) == [pg |-> pg, root |-> root]

\* Table::new of main.rs: root_page_num is 0 and no page is touched.
TableNewMain == Opened(PagerNew, 0)

\* Table::new of table.rs, one page: page 0 is fetched and, when a leaf,
\* flagged root.
MarkRoot(pg) ==
    IF pg.panic THEN pg
    ELSE IF IsLeaf(pg.pages[0]) THEN SetPage(pg, 0, [pg.pages[0] EXCEPT !.is_root = 1])
    ELSE pg

RECURSIVE FindRoot(_, _, _)
\* Table::new of table.rs, several pages: every page is fetched, and each
\* page flagged root replaces root_page_num.
FindRootOn(pg, num_page, root) ==
    IF pg.panic THEN Opened(pg, root)
    ELSE FindRoot(pg, num_page + 1,
                  IF pg.pages[num_page].is_root > 0 THEN num_page ELSE root)

FindRoot(pg, num_page, root) ==
    IF num_page >= pg.num_pages THEN Opened(pg, root)
    ELSE FindRootOn(GetPage(pg, num_page), num_page, root)

\* Table::new of table.rs
TableNewTable ==
    IF PagerNew.num_pages = 1 THEN Opened(MarkRoot(GetPage(PagerNew, 0)), 0)
    ELSE FindRoot(PagerNew, 0, 0)

(***************************************************************************)
(* Statements.                                                             *)
(***************************************************************************)
Executed(pg, root, result) == [pg |-> pg, root |-> root, result |-> result]

\* execute_insert of main.rs at the cursor: DuplicateKey when the cell at
\* the cursor holds the key, insert_at otherwise.
InsertAtCursorMain(cur, root, num_cells, row) ==
    IF cur.pg.panic THEN Executed(cur.pg, root, "Ok")
    ELSE IF IsInternal(cur.pg.pages[cur.page_num]) THEN Executed(cur.pg, root, "Ok")
    ELSE IF cur.cell_num < num_cells
            /\ cur.pg.pages[cur.page_num].key_values[cur.cell_num + 1].key = row.id
         THEN Executed(cur.pg, root, "DuplicateKey")
    ELSE Executed(SetPage(cur.pg, cur.page_num,
                          LeafInsertAt(cur.pg.pages[cur.page_num], cur.cell_num,
                                       row.id, row)),
                  root, "Ok")

\* execute_insert with the missing-row check ahead of the full check.
InsertOnRootRowFirst(pg, root, has_row, row) ==
    IF pg.panic THEN Executed(pg, root, "Ok")
    ELSE IF IsInternal(pg.pages[root]) THEN Executed(pg, root, "Ok")
    ELSE IF ~has_row THEN Executed(pg, root, "InvalidStatement")
    ELSE IF IsMax(pg.pages[root]) THEN Executed(pg, root, "TableFull")
    ELSE InsertAtCursorMain(TCursorFindInsertPosition(pg, root, row.id), root,
                            pg.pages[root].num_cells, row)

\* execute_insert taking a statement without a row as done.
InsertOnRootRowless(pg, root, has_row, row) ==
    IF pg.panic THEN Executed(pg, root, "Ok")
    ELSE IF IsInternal(pg.pages[root]) THEN Executed(pg, root, "Ok")
    ELSE IF IsMax(pg.pages[root]) THEN Executed(pg, root, "TableFull")
    ELSE IF ~has_row THEN Executed(pg, root, "Ok")
    ELSE InsertAtCursorMain(TCursorFindInsertPosition(pg, root, row.id), root,
                            pg.pages[root].num_cells, row)

\* execute_insert of main.rs once the root page is fetched: an Internal
\* root returns Ok with nothing done; a full leaf returns TableFull before
\* anything else is looked at.
InsertOnRoot(pg, root, has_row, row) ==
    IF pg.panic THEN Executed(pg, root, "Ok")
    ELSE IF IsInternal(pg.pages[root]) THEN Executed(pg, root, "Ok")
    ELSE IF IsMax(pg.pages[root]) THEN Executed(pg, root, "TableFull")
    ELSE IF ~has_row THEN Executed(pg, root, "InvalidStatement")
    ELSE InsertAtCursorMain(TCursorFindInsertPosition(pg, root, row.id), root,
                            pg.pages[root].num_cells, row)

\* execute_insert (main.rs)
ExecuteInsertMain(pg, root, has_row, row) ==
    InsertOnRoot(GetPage(pg, root), root, has_row, row)

\* The insert over table.rs, after a split: the root follows the split's
\* Some(new root).
AfterSplit(sp, root) ==
    Executed(sp.pg, IF sp.new_root = None THEN root ELSE sp.new_root, "Ok")

\* The insert over table.rs at the cursor: DuplicateKey when the cell at
\* the cursor holds the key; a full leaf is split by
\* Cursor::split_and_insert, any other takes the cell by insert_at.
InsertAtCursorTable(cur, root, row) ==
    IF cur.pg.panic THEN Executed(cur.pg, root, "Ok")
    ELSE IF cur.cell_num < cur.pg.pages[cur.page_num].num_cells
            /\ cur.pg.pages[cur.page_num].key_values[cur.cell_num + 1].key = row.id
         THEN Executed(cur.pg, root, "DuplicateKey")
    ELSE IF IsMax(cur.pg.pages[cur.page_num])
         THEN AfterSplit(SplitAndInsert(cur.pg, cur.page_num, cur.cell_num, row.id, row),
                         root)
    ELSE Executed(SetPage(cur.pg, cur.page_num,
                          LeafInsertAt(cur.pg.pages[cur.page_num], cur.cell_num,
                                       row.id, row)),
                  root, "Ok")

\* The insert over table.rs: Cursor::find_insert_position from the root,
\* then the insert at the cursor.
ExecuteInsertTable(pg, root, has_row, row) ==
    IF ~has_row THEN Executed(pg, root, "InvalidStatement")
    ELSE InsertAtCursorTable(CursorFindInsertPosition(pg, root, row.id, 0), root, row)

\* cursor.advance() of the implementation that runs.
Advance(which, cur) ==
    IF which = "main" THEN TCursorAdvance(cur) ELSE CursorAdvance(cur)

RECURSIVE ScanLoop(_, _, _)
\* One turn of execute_select's loop: get_row, advance, push.
ScanStep(which, cur, got, acc) ==
    IF got.pg.panic THEN [pg |-> got.pg, rows |-> acc]
    ELSE ScanLoop(which, Advance(which, [cur EXCEPT !.pg = got.pg]),
                  Append(acc, got.row))

\* The loop of execute_select. A loop that has pushed more rows than the
\* table's pages can hold never ends (rows grows until allocation fails).
ScanLoop(which, cur, acc) ==
    IF cur.pg.panic THEN [pg |-> cur.pg, rows |-> acc]
    ELSE IF cur.end_of_table THEN [pg |-> cur.pg, rows |-> acc]
    ELSE IF Len(acc) > TABLE_MAX_PAGES * NODE_MAX_CELLS
         THEN [pg |-> Panic(cur.pg), rows |-> acc]
    ELSE ScanStep(which, cur, GetRow(cur), acc)

\* execute_select
ExecuteSelect(which, pg, root) == ScanLoop(which, TableStart(pg, root), <<>>)

(***************************************************************************)
(* The state machine: a file opened, used and closed, by either            *)
(* implementation.                                                         *)
(***************************************************************************)
NoRet == [panic |-> FALSE, node |-> LeafNode(0, 0, 0, <<>>), done |-> FALSE]

\* The rows' keys.
KeysOf(rs) == {r.id : r \in rs}

Init ==
    /\ impl \in {"main", "table"}
    /\ status = "closed"
    /\ disk = <<>>
    /\ fpos = 0
    /\ file_length = 0
    /\ num_pages = 0
    /\ pages = NoPages
    /\ root_page_num = 0
    /\ last = NoOp
    /\ rows = <<>>
    /\ acked = {}
    /\ persisted = {}
    /\ sessions = 0
    /\ arg = ZeroBuf(0)
    /\ ret = NoRet

\* The process panicked: the table in memory is gone, the file stays as it
\* was last written.
Abort(op) ==
    /\ status' = "aborted"
    /\ last' = [op EXCEPT !.result = "Panic"]
    /\ pages' = NoPages
    /\ rows' = <<>>
    /\ UNCHANGED <<impl, disk, fpos, file_length, num_pages, root_page_num, acked,
                   persisted, sessions, arg, ret>>

\* A command loop that goes on after an execute error.
ContinueAfterError(pg, root, op, out, ack) ==
    /\ status' = "open"
    /\ last' = op
    /\ pages' = pg.pages
    /\ fpos' = pg.fpos
    /\ num_pages' = pg.num_pages
    /\ file_length' = pg.file_length
    /\ root_page_num' = root
    /\ rows' = out
    /\ acked' = ack
    /\ UNCHANGED <<impl, disk, persisted, sessions, arg, ret>>

\* The operation returned: the pager and the root it leaves, its output. The
\* command loop goes on after Ok and breaks, without a close, after an
\* execute error.
Continue(pg, root, op, out, ack) ==
    /\ status' = IF op.result = "Ok" THEN "open" ELSE "ended"
    /\ last' = op
    /\ pages' = pg.pages
    /\ fpos' = pg.fpos
    /\ num_pages' = pg.num_pages
    /\ file_length' = pg.file_length
    /\ root_page_num' = root
    /\ rows' = out
    /\ acked' = ack
    /\ UNCHANGED <<impl, disk, persisted, sessions, arg, ret>>

\* Table::new returned (it has no error of its own) or panicked.
OpenDone(t) ==
    /\ sessions' = sessions + 1
    /\ IF t.pg.panic
       THEN /\ status' = "aborted"
            /\ last' = Op("open", 0, FALSE, "Panic")
            /\ pages' = NoPages
            /\ UNCHANGED <<fpos, file_length, num_pages, root_page_num>>
       ELSE /\ status' = "open"
            /\ last' = Op("open", 0, FALSE, "Ok")
            /\ pages' = t.pg.pages
            /\ fpos' = t.pg.fpos
            /\ num_pages' = t.pg.num_pages
            /\ file_length' = t.pg.file_length
            /\ root_page_num' = t.root
    /\ rows' = <<>>
    /\ acked' = persisted
    /\ UNCHANGED <<impl, disk, persisted, arg, ret>>

\* A process starts and opens the file: Table::new of main.rs.
OpenMain ==
    /\ impl = "main"
    /\ status \in {"closed", "ended", "aborted"}
    /\ sessions < MaxSessions
    /\ OpenDone(TableNewMain)

\* A process starts and opens the file: Table::new of table.rs.
OpenTable ==
    /\ impl = "table"
    /\ status \in {"closed", "ended", "aborted"}
    /\ sessions < MaxSessions
    /\ OpenDone(TableNewTable)

\* An insert statement returned e, or panicked.
InsertDone(e, op, row) ==
    IF e.pg.panic THEN Abort(op)
    ELSE Continue(e.pg, e.root, [op EXCEPT !.result = e.result], rows,
                  IF e.result = "Ok" /\ op.has_row THEN acked \cup {row} ELSE acked)

\* The record of an insert statement; stored tells whether its key was the
\* key of a row inserted before.
InsertOp(key, has_row) ==
    [Op("insert", key, has_row, "none") EXCEPT
        !.stored = has_row /\ key \in KeysOf(acked)]

\* insert <key> <name> <name>@..., or a statement without a row to insert
\* (one such statement is enough: nothing of it is read), by execute_insert
\* of main.rs.
InsertMain ==
    /\ impl = "main"
    /\ status = "open"
    /\ num_pages <= MaxPages
    /\ \E key \in Keys, name \in Names, has_row \in BOOLEAN :
          /\ has_row \/ (key = 1 /\ name = 1)
          /\ InsertDone(ExecuteInsertMain(ThePager, root_page_num, has_row,
                                       Row(key, name, name)),
                     InsertOp(key, has_row), Row(key, name, name))

\* insert <key> <name> <name>@..., or a statement without a row to insert,
\* over table.rs.
InsertTable ==
    /\ impl = "table"
    /\ status = "open"
    /\ num_pages <= MaxPages
    /\ \E key \in Keys, name \in Names, has_row \in BOOLEAN :
          /\ has_row \/ (key = 1 /\ name = 1)
          /\ InsertDone(ExecuteInsertTable(ThePager, root_page_num, has_row,
                                        Row(key, name, name)),
                     InsertOp(key, has_row), Row(key, name, name))

\* A select statement returned its rows, or panicked.
SelectDone(s) ==
    IF s.pg.panic THEN Abort(Op("select", 0, FALSE, "none"))
    ELSE Continue(s.pg, root_page_num, Op("select", 0, FALSE, "Ok"), s.rows, acked)

\* select, by execute_select with TCursor (main.rs).
SelectMain ==
    /\ impl = "main"
    /\ status = "open"
    /\ SelectDone(ExecuteSelect("main", ThePager, root_page_num))

\* select, by execute_select with Cursor (table.rs).
SelectTable ==
    /\ impl = "table"
    /\ status = "open"
    /\ SelectDone(ExecuteSelect("table", ThePager, root_page_num))

\* Table::close returned what Pager::flush returned; the process ends.
CloseDone(f) ==
    /\ status' = "closed"
    /\ disk' = f.disk
    /\ fpos' = f.fpos
    /\ last' = Op("close", 0, FALSE, IF f.err THEN "PageNotExists" ELSE "Ok")
    /\ persisted' = IF f.err THEN persisted ELSE acked
    /\ UNCHANGED <<impl, file_length, num_pages, pages, root_page_num, rows, acked,
                   sessions, arg, ret>>

\* .exit: Table::close.
Close ==
    /\ status = "open"
    /\ CloseDone(Flush(ThePager, disk))

Next ==
    \/ OpenMain
    \/ OpenTable
    \/ InsertMain
    \/ InsertTable
    \/ SelectMain
    \/ SelectTable
    \/ Close

Spec == Init /\ [][Next]_vars

(***************************************************************************)
(* The deserializer alone: From<&[u8]> applied to a buffer.                *)
(***************************************************************************)
\* How many fields (node_type, is_root, parent, count, right_child / first
\* key) lie wholly inside a buffer of len bytes.
FieldsIn(len) ==
    IF len < 1 THEN 0
    ELSE IF len < 2 THEN 1
    ELSE IF len < 6 THEN 2
    ELSE IF len < 10 THEN 3
    ELSE IF len < 14 THEN 4
    ELSE 5

\* The field contents of a buffer with at most k non-zero leading fields.
WordsUpTo(k) ==
    {w \in UNION {[1..n -> 0..MaxWord] : n \in 0..k} : w = <<>> \/ w[Len(w)] # 0}

Buffers ==
    {[len |-> l, words |-> w] : l \in {PAGE_SIZE}, w \in WordsUpTo(5)}
    \cup UNION {{[len |-> l, words |-> w] : w \in WordsUpTo(FieldsIn(l))} :
                    l \in 0..MaxBufLen}

InitDeser ==
    /\ impl = "main"
    /\ status = "closed"
    /\ disk = <<>>
    /\ fpos = 0
    /\ file_length = 0
    /\ num_pages = 0
    /\ pages = NoPages
    /\ root_page_num = 0
    /\ last = NoOp
    /\ rows = <<>>
    /\ acked = {}
    /\ persisted = {}
    /\ sessions = 0
    /\ arg \in Buffers
    /\ ret = NoRet

\* BTreeNode::from(arg)
Deser ==
    /\ ~ret.done
    /\ ret' = [panic |-> Deserialize(arg).panic, node |-> Deserialize(arg).node,
               done |-> TRUE]
    /\ UNCHANGED <<impl, status, disk, fpos, file_length, num_pages, pages,
                   root_page_num, last, rows, acked, persisted, sessions, arg>>

NextDeser == Deser

SpecDeser == InitDeser /\ [][NextDeser]_vars

(***************************************************************************)
(* Files that were not written by this program, opened by table.rs.        *)
(***************************************************************************)
\* Page images: leaves without cells or with one, an Internal node with one
\* cell, each flagged root or not.
PageImages ==
    {Serialize(LeafNode(r, 0, 0, <<>>)) : r \in 0..1}
    \cup {Serialize(LeafNode(r, 0, 1, <<KV(1, Row(1, 1, 1))>>)) : r \in 0..1}
    \cup {Serialize(InternalNode(r, 0, 1, 1, <<KC(0, 1)>>)) : r \in 0..1}

\* Files of two to MaxPages pages.
Files == UNION {[1..n -> PageImages] : n \in 2..MaxPages}

InitOpen ==
    /\ impl = "table"
    /\ status = "closed"
    /\ disk \in Files
    /\ fpos = 0
    /\ file_length = 0
    /\ num_pages = 0
    /\ pages = NoPages
    /\ root_page_num = 0
    /\ last = NoOp
    /\ rows = <<>>
    /\ acked = {}
    /\ persisted = {}
    /\ sessions = 0
    /\ arg = ZeroBuf(0)
    /\ ret = NoRet

NextOpen ==
    \/ OpenTable
    \/ SelectTable
    \/ Close

SpecOpen == InitOpen /\ [][NextOpen]_vars

(***************************************************************************)
(* Properties.                                                             *)
(***************************************************************************)
\* The rows of a sequence, as a set.
RowsOf(rs) == {rs[i] : i \in 1..Len(rs)}

\* Strictly ascending key order.
Ascending(rs) == \A i \in 1..(Len(rs) - 1) : rs[i].id < rs[i + 1].id

\* No two rows share a key.
DistinctKeys(rs) == Cardinality(KeysOf(rs)) = Cardinality(rs)

\* The root flag of an allocated page: of the cached node, else of the
\* page's image in the file, if it has one.
PageIsRoot(p) ==
    IF p \in DOMAIN pages THEN pages[p].is_root > 0
    ELSE IF p < Len(disk) THEN Deserialize(disk[p + 1]).node.is_root > 0
    ELSE FALSE

\* How many pages of a file carry the root flag.
RootFlags(d) ==
    Cardinality({p \in 1..Len(d) : Deserialize(d[p]).node.is_root > 0})

\* C1: the rows a select emits are in strictly ascending key order,
\* whatever was inserted before and in whatever order.
C1_ScanAscending == last.op = "select" => Ascending(rows)

\* A select that returned every cell of a full leaf.
C1_Witness ==
    /\ last.op = "select"
    /\ last.result = "Ok"
    /\ Len(rows) = NODE_MAX_CELLS
    /\ RowsOf(rows) = acked

\* C2: an insert whose key is the key of a row inserted before returns
\* DuplicateKey, and every page that was cached holds the cells it held.
C2_DuplicateRejected ==
    [][(last'.op = "insert" /\ last'.stored)
         => /\ last'.result = "DuplicateKey"
            /\ \A p \in DOMAIN pages : p \in DOMAIN pages' /\ pages'[p] = pages[p]]_vars

\* C3: when a close returned Ok and the file is opened again, the root page
\* number is the one the closed table had, and a scan of the reopened table
\* returns exactly the rows inserted before the close.
C3_ReopenPreserves ==
    [][(last.op = "close" /\ last.result = "Ok" /\ last'.op = "open")
         => /\ last'.result = "Ok"
            /\ root_page_num' = root_page_num
            /\ ~ExecuteSelect(impl, PagerOf(pages', fpos', num_pages', file_length'),
                              root_page_num').pg.panic
            /\ RowsOf(ExecuteSelect(impl,
                                    PagerOf(pages', fpos', num_pages', file_length'),
                                    root_page_num').rows) = persisted
            /\ Len(ExecuteSelect(impl,
                                 PagerOf(pages', fpos', num_pages', file_length'),
                                 root_page_num').rows) = Cardinality(persisted)]_vars

\* A fresh table whose one leaf holds keys 1..NODE_MAX_CELLS (whatever the
\* order they were inserted in, the leaf is the one ascending inserts leave).
FreshFull ==
    /\ status = "open"
    /\ sessions = 1
    /\ disk = <<>>
    /\ num_pages = 1
    /\ KeysOf(acked) = 1..NODE_MAX_CELLS
    /\ DistinctKeys(acked)

\* C4: on a fresh table holding keys 1..NODE_MAX_CELLS, the insert of key
\* NODE_MAX_CELLS + 1 succeeds, the root page number changes, and the new
\* root is an Internal node with one cell and two leaf children.
C4_OneSplit ==
    [][(FreshFull /\ last'.op = "insert" /\ last'.has_row
          /\ last'.key = NODE_MAX_CELLS + 1)
         => /\ last'.result = "Ok"
            /\ root_page_num' # root_page_num
            /\ root_page_num' \in DOMAIN pages'
            /\ IsInternal(pages'[root_page_num'])
            /\ pages'[root_page_num'].num_keys = 1
            /\ Len(pages'[root_page_num'].key_children) = 1
            /\ pages'[root_page_num'].key_children[1].child \in DOMAIN pages'
            /\ IsLeaf(pages'[pages'[root_page_num'].key_children[1].child])
            /\ pages'[root_page_num'].right_child \in DOMAIN pages'
            /\ IsLeaf(pages'[pages'[root_page_num'].right_child])
            /\ pages'[root_page_num'].right_child
                  # pages'[root_page_num'].key_children[1].child]_vars

\* C5: on a fresh table into which keys 1..NODE_MAX_CELLS + 1 were inserted
\* (its root is then an Internal node), a select returns, and returns the
\* NODE_MAX_CELLS + 1 rows in ascending key order.
C5_ScanFromInternalRoot ==
    (/\ last.op = "select"
     /\ sessions = 1
     /\ disk = <<>>
     /\ KeysOf(acked) = 1..(NODE_MAX_CELLS + 1)
     /\ DistinctKeys(acked))
    => /\ last.result = "Ok"
       /\ Len(rows) = NODE_MAX_CELLS + 1
       /\ RowsOf(rows) = acked
       /\ Ascending(rows)

\* C6: a select issued after the successful inserts of rows with distinct
\* keys returns exactly those rows, each once (none on a fresh table).
C6_SelectReturnsInserted ==
    (last.op = "select" /\ DistinctKeys(acked))
    => /\ last.result = "Ok"
       /\ Len(rows) = Cardinality(acked)
       /\ RowsOf(rows) = acked

\* C7: while the table is open, exactly one allocated page is flagged root
\* and it is page root_page_num.
C7_OneRoot ==
    status = "open" => {p \in 0..(num_pages - 1) : PageIsRoot(p)} = {root_page_num}

\* C8: opening a file of more than one page of which none, or more than
\* one, is flagged root does not return a table.
C8_CorruptRootsRejected ==
    (last.op = "open" /\ Len(disk) > 1 /\ RootFlags(disk) # 1)
    => (last.result # "Ok" /\ status # "open")

\* C9: close returns the page-not-cached error exactly when some page below
\* num_pages has no cached node, and when it returns Ok every page below
\* num_pages is in the file as its node serializes.
C9_FlushNeverSkips ==
    last.op = "close"
    => /\ last.result = "PageNotExists" <=> (\E p \in 0..(num_pages - 1) : p \notin DOMAIN pages)
       /\ last.result = "Ok"
            => /\ Len(disk) >= num_pages
               /\ \A p \in 0..(num_pages - 1) : disk[p + 1] = Serialize(pages[p])

\* A close that failed on a page that was never fetched.
C9_Witness ==
    /\ last.op = "close"
    /\ last.result = "PageNotExists"
    /\ num_pages > 0
    /\ 0 \notin DOMAIN pages

\* C10: deserializing an all-zero buffer, or a buffer shorter than the page
\* header, returns a Leaf flagged root without cells, and does not panic.
C10_ZeroOrShortIsEmptyRootLeaf ==
    (ret.done /\ (arg.words = <<>> \/ arg.len < NODE_HEADER_SIZE))
    => /\ ~ret.panic
       /\ IsLeaf(ret.node)
       /\ ret.node.is_root > 0
       /\ ret.node.num_cells = 0

(***************************************************************************)
(* Pure functions, each applied to inputs drawn from bounded sets. The     *)
(* variables a function does not use keep their initial values.            *)
(***************************************************************************)
\* The initial values of the table's variables.
NoTable ==
    /\ impl = "main"
    /\ status = "closed"
    /\ disk = <<>>
    /\ fpos = 0
    /\ file_length = 0
    /\ last = NoOp
    /\ rows = <<>>
    /\ acked = {}
    /\ persisted = {}
    /\ sessions = 0

\* Sequences over S of at most n elements.
SeqsUpTo(S, n) == UNION {[1..k -> S] : k \in 0..n}

(***************************************************************************)
(* serialize, then From<&[u8]>: pages[0] is the node, arg its serialized   *)
(* form, ret what is read back.                                            *)
(***************************************************************************)
\* Cells whose fields are 0 or MaxCellWord.
LeafCells == {KV(k, Row(i, u, e)) : k \in {0, MaxCellWord}, i \in {0, MaxCellWord}, u \in {0, MaxCellWord}, e \in {0, MaxCellWord}}
InternalCells == {KC(c, k) : c \in {0, MaxCellWord}, k \in {0, MaxCellWord}}

\* Leaves of at most NODE_MAX_CELLS cells, num_cells being their number.
Leaves ==
    {LeafNode(r, p, Len(kvs), kvs) :
        r \in 0..1, p \in {0, MaxCellWord}, kvs \in SeqsUpTo(LeafCells, NODE_MAX_CELLS)}

\* Internal nodes of at most MaxInternalCells cells, and the ones of
\* INTERNAL_MAX_CELLS equal cells.
Internals ==
    {InternalNode(r, p, Len(kcs), c, kcs) :
        r \in 0..1, p \in {0, MaxCellWord}, c \in {0, MaxCellWord},
        kcs \in SeqsUpTo(InternalCells, MaxInternalCells)}
    \cup {InternalNode(1, 0, INTERNAL_MAX_CELLS, MaxCellWord, [i \in 1..INTERNAL_MAX_CELLS |-> kc]) :
             kc \in InternalCells}

InitRound ==
    /\ NoTable
    /\ root_page_num = 0
    /\ num_pages = 1
    /\ pages \in {[p \in {0} |-> n] : n \in Leaves \cup Internals}
    /\ arg = ZeroBuf(0)
    /\ ret = NoRet

\* BTreeNode::from(buf) of the buf that pages[0].serialize(buf) filled.
RoundTrip ==
    /\ ~ret.done
    /\ arg' = Serialize(pages[0])
    /\ ret' = [panic |-> Deserialize(arg').panic, node |-> Deserialize(arg').node,
               done |-> TRUE]
    /\ UNCHANGED <<impl, status, disk, fpos, file_length, num_pages, pages,
                   root_page_num, last, rows, acked, persisted, sessions>>

NextRound == RoundTrip

SpecRound == InitRound /\ [][NextRound]_vars

\* C11: a Leaf of at most NODE_MAX_CELLS cells or an Internal of at most
\* INTERNAL_MAX_CELLS cells, whose count is the number of its cells, is read
\* back from its serialized form with the same type, root flag, parent,
\* right_child and cells.
C11_RoundTrip == ret.done => (~ret.panic /\ ret.node = pages[0])

\* A full leaf whose last cell ends in a non-zero field was read back.
C11_Witness ==
    /\ ret.done
    /\ IsLeaf(pages[0])
    /\ pages[0].num_cells = NODE_MAX_CELLS
    /\ pages[0].key_values[NODE_MAX_CELLS].value.email = MaxCellWord
    /\ ret.node = pages[0]

(***************************************************************************)
(* find_insert_position on one leaf: pages[0] is the leaf, arg the target  *)
(* key, ret the cursors of main.rs and of table.rs.                        *)
(***************************************************************************)
RECURSIVE AscendingCells(_, _)
\* The cells of the keys of S in ascending order, each key k above `low`
\* holding Row(k, 1, 1).
AscendingCells(S, low) ==
    IF \A k \in S : k <= low THEN <<>>
    ELSE <<KV(CHOOSE k \in S : k > low /\ \A j \in S : j > low => k <= j,
              Row(CHOOSE k \in S : k > low /\ \A j \in S : j > low => k <= j, 1, 1))>>
         \o AscendingCells(S, CHOOSE k \in S : k > low /\ \A j \in S : j > low => k <= j)

\* Leaves of strictly ascending keys of 1..MaxSearchKey.
SortedLeaves ==
    {LeafNode(1, 0, Cardinality(S), AscendingCells(S, 0)) :
        S \in {T \in SUBSET (1..MaxSearchKey) : Cardinality(T) <= NODE_MAX_CELLS}}

\* What a cursor holds besides the table.
Position(cur) ==
    [panic |-> cur.pg.panic, page_num |-> cur.page_num, cell_num |-> cur.cell_num,
     end_of_table |-> cur.end_of_table]

InitSearch ==
    /\ NoTable
    /\ root_page_num = 0
    /\ num_pages = 1
    /\ pages \in {[p \in {0} |-> n] : n \in SortedLeaves}
    /\ arg \in 0..(MaxSearchKey + 1)
    /\ ret = [done |-> FALSE]

\* TCursor::find_insert_position(table, key) and
\* Cursor::find_insert_position(table, 0, key) on the table of the one leaf.
Search ==
    /\ ~ret.done
    /\ ret' = [done |-> TRUE,
               main |-> Position(TCursorFindInsertPosition(ThePager, 0, arg)),
               table |-> Position(CursorFindInsertPosition(ThePager, 0, arg, 0))]
    /\ UNCHANGED <<impl, status, disk, fpos, file_length, num_pages, pages,
                   root_page_num, last, rows, acked, persisted, sessions, arg>>

NextSearch == Search

SpecSearch == InitSearch /\ [][NextSearch]_vars

\* keys[i-1] < target <= keys[i] for the cell index i counted from 0, and
\* the cell at i holds the target when the target is present.
LowerBound(key_values, target, i) ==
    /\ i \in 0..Len(key_values)
    /\ i > 0 => key_values[i].key < target
    /\ i < Len(key_values) => target <= key_values[i + 1].key
    /\ (\E j \in 1..Len(key_values) : key_values[j].key = target)
           => (i < Len(key_values) /\ key_values[i + 1].key = target)

\* C12: on a leaf of strictly ascending keys, find_insert_position of
\* main.rs and of table.rs returns the cell index i with
\* keys[i-1] < target <= keys[i], which is the target's index when the
\* target is present.
C12_LowerBound ==
    ret.done =>
        /\ ~ret.main.panic /\ LowerBound(pages[0].key_values, arg, ret.main.cell_num)
        /\ ~ret.table.panic /\ LowerBound(pages[0].key_values, arg, ret.table.cell_num)

\* An absent target between the last two keys of a full leaf was searched.
C12_Witness ==
    /\ ret.done
    /\ pages[0].num_cells = NODE_MAX_CELLS
    /\ pages[0].key_values[NODE_MAX_CELLS - 1].key < arg
    /\ arg < pages[0].key_values[NODE_MAX_CELLS].key
    /\ ret.main.cell_num = NODE_MAX_CELLS - 1
    /\ ret.table.cell_num = NODE_MAX_CELLS - 1

(***************************************************************************)
(* execute_insert of main.rs on a full leaf and without a row              *)
(***************************************************************************)
\* The pager after get_page(root_page_num) in the current state, and the
\* root leaf it holds.
RootFetched == GetPage(ThePager, root_page_num)
RootIsLeafOf(n) ==
    /\ ~RootFetched.panic
    /\ IsLeaf(RootFetched.pages[root_page_num])
    /\ Len(RootFetched.pages[root_page_num].key_values) = n

\* Every cached page holds after the step the cells and the count that
\* get_page gave for it before, and the file is as it was.
CellsKept ==
    /\ disk' = disk
    /\ \A p \in DOMAIN pages' :
          /\ ~GetPage(ThePager, p).panic
          /\ pages'[p] = GetPage(ThePager, p).pages[p]

\* C13: execute_insert (main.rs) on a root leaf of NODE_MAX_CELLS cells
\* returns TableFull and leaves the leaf as it was, with or without a row
\* in the statement.
C13_FullBeforeMissingRow ==
    [][(impl = "main" /\ last'.op = "insert" /\ RootIsLeafOf(NODE_MAX_CELLS))
         => (last'.result = "TableFull" /\ CellsKept)]_vars

\* A statement without a row was answered TableFull by a full root leaf.
C13_Witness ==
    /\ impl = "main"
    /\ last.op = "insert"
    /\ ~last.has_row
    /\ last.result = "TableFull"
    /\ 0 \in DOMAIN pages
    /\ Len(pages[0].key_values) = NODE_MAX_CELLS

\* C14: execute_insert (main.rs) of a statement without a row, on a root
\* leaf that is not full, returns InvalidStatement and modifies no page's
\* cells or cell count.
C14_MissingRowRejected ==
    [][(/\ impl = "main"
        /\ last'.op = "insert"
        /\ ~last'.has_row
        /\ \E n \in 0..(NODE_MAX_CELLS - 1) : RootIsLeafOf(n))
         => (last'.result = "InvalidStatement" /\ CellsKept)]_vars

\* A statement without a row was answered InvalidStatement by a root leaf
\* that holds cells and is not full.
C14_Witness ==
    /\ impl = "main"
    /\ last.op = "insert"
    /\ ~last.has_row
    /\ last.result = "InvalidStatement"
    /\ 0 \in DOMAIN pages
    /\ Len(pages[0].key_values) \in 1..(NODE_MAX_CELLS - 1)

(***************************************************************************)
(* The file after close                                                    *)
(***************************************************************************)
RECURSIVE FileBytes(_)
\* The length in bytes of a file written page after page.
FileBytes(d) == IF d = <<>> THEN 0 ELSE Head(d).len + FileBytes(Tail(d))

\* C15: after a close that returned Ok, the length of the file is a
\* multiple of PAGE_SIZE.
C15_ClosedFileWholePages ==
    (last.op = "close" /\ last.result = "Ok")
        => (FileBytes(disk) > 0 /\ FileBytes(disk) % PAGE_SIZE = 0)

\* A close returned Ok after writing a leaf with cells and more pages.
C15_Witness ==
    /\ last.op = "close"
    /\ last.result = "Ok"
    /\ Len(disk) > 1
    /\ \E i \in 1..Len(disk) : Len(disk[i].words) > 4

(***************************************************************************)
(* prepare_statement building the row of an insert: arg is the statement's *)
(* id, username and email (byte strings), ret the result.                  *)
(***************************************************************************)
\* A text of n bytes, none of them zero.
TextOf(n) == [i \in 1..n |-> 1 + (i % 2)]

\* let mut u = [0u8; width]; u[0..(bytes.len())].copy_from_slice(&bytes):
\* the slice index panics when bytes is longer than the array.
CopyInto(width, bytes) ==
    IF Len(bytes) > width THEN [panic |-> TRUE, array |-> <<>>]
    ELSE [panic |-> FALSE,
          array |-> [i \in 1..width |-> IF i <= Len(bytes) THEN bytes[i] ELSE 0]]

\* prepare_statement once id, username and email are read: the two copies,
\* then Ok(statement) with the row.
RowBuilt(id, u, e) ==
    IF u.panic \/ e.panic THEN [done |-> TRUE, result |-> "Panic", row |-> RowDefault]
    ELSE [done |-> TRUE, result |-> "Ok", row |-> Row(id, u.array, e.array)]

InitPrepare ==
    /\ NoTable
    /\ root_page_num = 0
    /\ num_pages = 0
    /\ pages = NoPages
    /\ arg \in {[id |-> 1, username |-> TextOf(u), email |-> TextOf(e)] :
                  u \in 0..(COLUMN_USERNAME_SIZE + MaxOver),
                  e \in 0..(COLUMN_EMAIL_SIZE + MaxOver)}
    /\ ret = [done |-> FALSE, result |-> "none", row |-> RowDefault]

\* prepare_statement of insert <id> "<username>" "<email>"
Prepare ==
    /\ ~ret.done
    /\ ret' = RowBuilt(arg.id, CopyInto(COLUMN_USERNAME_SIZE, arg.username),
                       CopyInto(COLUMN_EMAIL_SIZE, arg.email))
    /\ UNCHANGED <<impl, status, disk, fpos, file_length, num_pages, pages,
                   root_page_num, last, rows, acked, persisted, sessions, arg>>

NextPrepare == Prepare

SpecPrepare == InitPrepare /\ [][NextPrepare]_vars

\* bytes followed by zeros up to width.
ZeroPadded(bytes, width, array) ==
    /\ Len(array) = width
    /\ \A i \in 1..width : array[i] = (IF i <= Len(bytes) THEN bytes[i] ELSE 0)

\* C16: building the row fails with ValueTooLong exactly when the username
\* is longer than 32 bytes or the email longer than 255 bytes, and in every
\* other case succeeds with each field zero-padded to its width.
C16_ValueTooLongIffOverWidth ==
    ret.done =>
        IF Len(arg.username) > COLUMN_USERNAME_SIZE \/ Len(arg.email) > COLUMN_EMAIL_SIZE
        THEN ret.result = "ValueTooLong"
        ELSE /\ ret.result = "Ok"
             /\ ret.row.id = arg.id
             /\ ZeroPadded(arg.username, COLUMN_USERNAME_SIZE, ret.row.username)
             /\ ZeroPadded(arg.email, COLUMN_EMAIL_SIZE, ret.row.email)

(***************************************************************************)
(* find_key on one Internal page: pages[0] is the page, arg the target     *)
(* key, ret the page number find_key returns.                              *)
(***************************************************************************)
RECURSIVE AscendingChildren(_, _, _)
\* The cells of the keys of S in ascending order, the cell of the i-th key
\* above `low` pointing at page `child` + i - 1.
AscendingChildren(S, low, child) ==
    IF \A k \in S : k <= low THEN <<>>
    ELSE <<KC(child, CHOOSE k \in S : k > low /\ \A j \in S : j > low => k <= j)>>
         \o AscendingChildren(S, CHOOSE k \in S : k > low /\ \A j \in S : j > low => k <= j,
                              child + 1)

\* Internal roots at page 0 with up to MaxInternalCells cells of ascending
\* keys of 1..MaxSearchKey, their children the pages 1, 2, ... and
\* right_child the page after the last of them.
SortedInternals ==
    {InternalNode(1, 0, Cardinality(S), Cardinality(S) + 1, AscendingChildren(S, 0, 1)) :
        S \in {T \in SUBSET (1..MaxSearchKey) : Cardinality(T) <= MaxInternalCells}}

InitFind ==
    /\ NoTable
    /\ root_page_num = 0
    /\ num_pages = 1
    /\ pages \in {[p \in {0} |-> n] : n \in SortedInternals}
    /\ arg \in 0..(MaxSearchKey + 1)
    /\ ret = [done |-> FALSE, panic |-> FALSE, page |-> 0]

\* page.find_key(key), as Cursor::find_insert_position calls it on an
\* Internal page.
Find ==
    /\ ~ret.done
    /\ ret' = [done |-> TRUE, panic |-> FindKey(pages[0], arg).panic,
               page |-> FindKey(pages[0], arg).page]
    /\ UNCHANGED <<impl, status, disk, fpos, file_length, num_pages, pages,
                   root_page_num, last, rows, acked, persisted, sessions, arg>>

NextFind == Find

SpecFind == InitFind /\ [][NextFind]_vars

\* The child of the first cell whose key is >= target, and right_child when
\* there is no such cell.
ChildFor(node, target) ==
    IF \E i \in 1..Len(node.key_children) : node.key_children[i].key >= target
    THEN node.key_children[CHOOSE i \in 1..Len(node.key_children) :
                              /\ node.key_children[i].key >= target
                              /\ \A j \in 1..(i - 1) : node.key_children[j].key < target].child
    ELSE node.right_child

\* C17: on an Internal page the descent goes to the child of the first cell
\* whose key is >= the target, and to right_child only when no cell has
\* such a key.
C17_DescentPicksFirstCell ==
    ret.done => (~ret.panic /\ ret.page = ChildFor(pages[0], arg))

(***************************************************************************)
(* split_and_insert on one full leaf: arg holds the leaf's page number,    *)
(* the new key and the pages before the call; ret the Option returned.     *)
(***************************************************************************)
SplitKeys == 1..MaxSplitKey
MaxOf(S) == CHOOSE m \in S : \A j \in S : j <= m

\* A table of one page: the root leaf, full; any key it does not hold.
RootSplits ==
    UNION {{[pages |-> [p \in {0} |-> LeafNode(1, 0, NODE_MAX_CELLS, AscendingCells(S, 0))],
             num_pages |-> 1, root_page_num |-> 0, page_num |-> 0, key |-> k] :
               k \in SplitKeys \ S} :
           S \in {T \in SUBSET SplitKeys : Cardinality(T) = NODE_MAX_CELLS}}

\* A table after one split of the root: leaves 0 and 1 under the Internal
\* root 2, whose one cell is (child 0, key = the largest key of leaf 0) and
\* whose right_child is 1; the leaf `n` is full and takes a key of its range.
TwoLeaves(S0, S1, n, k) ==
    [pages |-> [p \in 0..2 |->
                   IF p = 0 THEN LeafNode(0, 2, Cardinality(S0), AscendingCells(S0, 0))
                   ELSE IF p = 1 THEN LeafNode(0, 2, Cardinality(S1), AscendingCells(S1, 0))
                   ELSE InternalNode(1, 0, 1, 1, <<KC(0, MaxOf(S0))>>)],
     num_pages |-> 3, root_page_num |-> 2, page_num |-> n, key |-> k]

HalfToFull == {T \in SUBSET SplitKeys : Cardinality(T) \in LEAF_NODE_LEFT_SPLIT_COUNT..NODE_MAX_CELLS}

ChildSplits ==
    UNION {UNION {{TwoLeaves(S0, S1, 0, k) : k \in {j \in SplitKeys \ S0 : j < MaxOf(S0)}}
                  \cup {TwoLeaves(S0, S1, 1, k) : k \in {j \in SplitKeys \ S1 : j > MaxOf(S0)}} :
                  S1 \in {T \in HalfToFull : \A a \in S0, b \in T : a < b}} :
           S0 \in HalfToFull}

InitSplit ==
    /\ NoTable
    /\ \E x \in RootSplits \cup {c \in ChildSplits : IsMax(c.pages[c.page_num])} :
          /\ pages = x.pages
          /\ num_pages = x.num_pages
          /\ root_page_num = x.root_page_num
          /\ arg = [page_num |-> x.page_num, key |-> x.key, before |-> x.pages]
    /\ ret = [done |-> FALSE, panic |-> FALSE, new_root |-> None]

\* split_and_insert returned, or panicked.
SplitDone(r) ==
    /\ pages' = r.pg.pages
    /\ num_pages' = r.pg.num_pages
    /\ fpos' = r.pg.fpos
    /\ ret' = [done |-> TRUE, panic |-> r.pg.panic, new_root |-> r.new_root]

\* pager.split_and_insert(page_num, cell_num, key, value), cell_num being
\* the cursor's position for key on the leaf.
Split ==
    /\ ~ret.done
    /\ SplitDone(SplitAndInsert(ThePager, arg.page_num,
                                LeafPosition(ThePager, arg.page_num, arg.key).cell_num,
                                arg.key, Row(arg.key, 1, 1)))
    /\ UNCHANGED <<impl, status, disk, file_length, root_page_num, last, rows,
                   acked, persisted, sessions, arg>>

NextSplit == Split

SpecSplit == InitSplit /\ [][NextSplit]_vars

\* The leaf that was split, as it was; its page number; the page number
\* new_page_num gave first; the keys the two leaves must hold.
SplitLeaf == arg.before[arg.page_num]
NewPage == Cardinality(DOMAIN arg.before)
CellsToSplit == AscendingCells(KeysOf({SplitLeaf.key_values[i].value : i \in 1..Len(SplitLeaf.key_values)}) \cup {arg.key}, 0)


\* Ascending (not strictly) keys of an Internal node's cells.
CellsSorted(kcs) == \A i \in 1..(Len(kcs) - 1) : kcs[i].key <= kcs[i + 1].key

\* kcs is old with the cell kc put in at some index.
OneCellAdded(kcs, old, kc) ==
    \E i \in 1..Len(kcs) :
        /\ kcs[i] = kc
        /\ Len(kcs) = Len(old) + 1
        /\ \A j \in 1..Len(old) : old[j] = kcs[IF j < i THEN j ELSE j + 1]

\* C18: a split of a non-root leaf inserts (child = the leaf's page, key =
\* the largest key left on it) into the parent at its sorted position,
\* moves the parent's right_child to the new page exactly when it pointed
\* at the leaf, sets the new page's parent to that parent and returns None.
C18_SplitUnderParent ==
    (ret.done /\ SplitLeaf.is_root = 0) =>
        /\ ~ret.panic
        /\ ret.new_root = None
        /\ OneCellAdded(pages[SplitLeaf.parent].key_children,
                        arg.before[SplitLeaf.parent].key_children,
                        KC(arg.page_num, LeafMaxKey(pages[arg.page_num].key_values)))
        /\ CellsSorted(pages[SplitLeaf.parent].key_children)
        /\ pages[SplitLeaf.parent].num_keys = arg.before[SplitLeaf.parent].num_keys + 1
        /\ pages[SplitLeaf.parent].right_child =
               (IF arg.before[SplitLeaf.parent].right_child = arg.page_num
                THEN NewPage ELSE arg.before[SplitLeaf.parent].right_child)
        /\ IsLeaf(pages[NewPage])
        /\ pages[NewPage].parent = SplitLeaf.parent

\* The leaf the parent's right_child pointed at was split: right_child is
\* the new page and the parent holds two cells.
C18_Witness ==
    /\ ret.done
    /\ SplitLeaf.is_root = 0
    /\ arg.before[SplitLeaf.parent].right_child = arg.page_num
    /\ pages[SplitLeaf.parent].right_child = NewPage
    /\ pages[SplitLeaf.parent].num_keys = 2

\* C19: a split of the root leaf takes two fresh page numbers, makes a new
\* Internal root with is_root set, right_child = the new leaf and the one
\* cell (child = the old root's page, key = the largest key left on it),
\* clears is_root on the old root, sets the parent of both leaves to the new
\* root and returns the new root's page number.
C19_SplitRoot ==
    (ret.done /\ SplitLeaf.is_root > 0) =>
        /\ ~ret.panic
        /\ num_pages = NewPage + 2
        /\ DOMAIN pages = DOMAIN arg.before \cup {NewPage, NewPage + 1}
        /\ ret.new_root = NewPage + 1
        /\ IsInternal(pages[NewPage + 1])
        /\ pages[NewPage + 1].is_root > 0
        /\ pages[NewPage + 1].right_child = NewPage
        /\ pages[NewPage + 1].key_children =
               <<KC(arg.page_num, LeafMaxKey(pages[arg.page_num].key_values))>>
        /\ pages[NewPage + 1].num_keys = 1
        /\ IsLeaf(pages[arg.page_num])
        /\ pages[arg.page_num].is_root = 0
        /\ pages[arg.page_num].parent = NewPage + 1
        /\ IsLeaf(pages[NewPage])
        /\ pages[NewPage].is_root = 0
        /\ pages[NewPage].parent = NewPage + 1

\* The root leaf was split and page 2 is the new root.
C19_Witness ==
    /\ ret.done
    /\ SplitLeaf.is_root > 0
    /\ ret.new_root = 2
    /\ IsInternal(pages[2])
    /\ pages[0].parent = 2

\* C20: the NODE_MAX_CELLS + 1 cells (the leaf's and the new one at its
\* sorted position) are divided in order: the first
\* (NODE_MAX_CELLS + 1) - (NODE_MAX_CELLS + 1) / 2 stay on the leaf's page,
\* the other (NODE_MAX_CELLS + 1) / 2 are on the new page; none is lost or
\* doubled and every key on the leaf's page is below every key on the new.
C20_SplitPartition ==
    ret.done =>
        /\ ~ret.panic
        /\ Len(CellsToSplit) = NODE_MAX_CELLS + 1
        /\ pages[arg.page_num].key_values
               = SubSeq(CellsToSplit, 1, (NODE_MAX_CELLS + 1) - (NODE_MAX_CELLS + 1) \div 2)
        /\ pages[arg.page_num].num_cells = (NODE_MAX_CELLS + 1) - (NODE_MAX_CELLS + 1) \div 2
        /\ NewPage \notin DOMAIN arg.before
        /\ pages[NewPage].key_values
               = SubSeq(CellsToSplit, (NODE_MAX_CELLS + 1) - (NODE_MAX_CELLS + 1) \div 2 + 1,
                        NODE_MAX_CELLS + 1)
        /\ pages[NewPage].num_cells = (NODE_MAX_CELLS + 1) \div 2
        /\ \A i \in 1..Len(pages[arg.page_num].key_values),
              j \in 1..Len(pages[NewPage].key_values) :
              pages[arg.page_num].key_values[i].key < pages[NewPage].key_values[j].key

\* A split whose new key went to the new page, between two keys of it.
C20_Witness ==
    /\ ret.done
    /\ ~ret.panic
    /\ Len(pages[NewPage].key_values) = (NODE_MAX_CELLS + 1) \div 2
    /\ \E j \in 1..(Len(pages[NewPage].key_values) - 1) :
          /\ pages[NewPage].key_values[j].key = arg.key
          /\ arg.key < pages[NewPage].key_values[j + 1].key

(***************************************************************************)
(* Cursor::advance over a tree of one Internal root and its leaves: pages  *)
(* is the tree, ret the cursor.                                            *)
(***************************************************************************)
\* The page numbers of the leaves, in key order, of a tree grown by splits
\* of the rightmost leaf: the root leaf 0, its first right half 1, the new
\* root 2, then one new page per split.
LeafPageAt(i) == IF i <= 2 THEN i - 1 ELSE i

\* The tree of n cells: leaf i (of sizes[i] cells, its keys following
\* NODE_MAX_CELLS * (i - 1)) is the child of cell i for i <= n, and leaf
\* n + 1 is right_child; a cell's key is the largest key of its child.
LeafAt(i, size) ==
    LeafNode(0, 2, size,
             [c \in 1..size |-> KV(NODE_MAX_CELLS * (i - 1) + c,
                                   Row(NODE_MAX_CELLS * (i - 1) + c, 1, 1))])

TreeOf(n, sizes) ==
    [p \in {2} \cup {LeafPageAt(i) : i \in 1..(n + 1)} |->
        IF p = 2
        THEN InternalNode(1, 0, n, LeafPageAt(n + 1),
                          [i \in 1..n |-> KC(LeafPageAt(i), NODE_MAX_CELLS * (i - 1) + sizes[i])])
        ELSE LeafAt(CHOOSE i \in 1..(n + 1) : LeafPageAt(i) = p,
                    sizes[CHOOSE i \in 1..(n + 1) : LeafPageAt(i) = p])]

\* Every leaf holds LEAF_NODE_LEFT_SPLIT_COUNT to NODE_MAX_CELLS cells, as
\* the halves of a split and what they grow to.
Trees ==
    UNION {{TreeOf(n, sizes) :
               sizes \in [1..(n + 1) -> LEAF_NODE_LEFT_SPLIT_COUNT..NODE_MAX_CELLS]} :
           n \in 1..MaxInternalCells}

InitAdvance ==
    /\ NoTable
    /\ root_page_num = 2
    /\ pages \in Trees
    /\ num_pages = Cardinality(DOMAIN pages)
    /\ \E p \in DOMAIN pages \ {2} :
          /\ arg = p
          /\ ret = [panic |-> FALSE, page_num |-> p, cell_num |-> 0, end_of_table |-> FALSE]

\* cursor.advance() left the cursor as cur.
Advanced(cur) ==
    /\ pages' = cur.pg.pages
    /\ fpos' = cur.pg.fpos
    /\ ret' = Position(cur)

\* cursor.advance(), as the loop of a scan calls it until end_of_table.
AdvanceCursor ==
    /\ ~ret.panic
    /\ ~ret.end_of_table
    /\ Advanced(CursorAdvance(CursorAt(ThePager, ret.page_num, ret.cell_num,
                                       ret.end_of_table)))
    /\ UNCHANGED <<impl, status, disk, file_length, num_pages, root_page_num, last,
                   rows, acked, persisted, sessions, arg>>

NextAdvance == AdvanceCursor

SpecAdvance == InitAdvance /\ [][NextAdvance]_vars

\* The scan goes on calling advance while it can.
SpecAdvanceFair == SpecAdvance /\ WF_vars(AdvanceCursor)

\* The cursor is on the last cell of a leaf that is not the root.
OnLastCell ==
    /\ ~ret.panic
    /\ ~ret.end_of_table
    /\ IsLeaf(pages[ret.page_num])
    /\ pages[ret.page_num].is_root = 0
    /\ ret.cell_num + 1 >= pages[ret.page_num].num_cells

\* C21: advance past the last cell of a non-root leaf that is the child of
\* cell j of its parent moves the cursor to the child of cell j + 1, or to
\* right_child when j is the last cell, with cell_num 0; past the last cell
\* of a leaf with no next sibling it sets end_of_table.
C21_AdvanceToNextSibling ==
    [][OnLastCell =>
         LET parent == pages[pages[ret.page_num].parent]
             at == {j \in 1..Len(parent.key_children) :
                        parent.key_children[j].child = ret.page_num}
         IN /\ \A j \in at :
                  /\ ~ret'.panic
                  /\ ret'.cell_num = 0
                  /\ ret'.page_num = (IF j < Len(parent.key_children)
                                      THEN parent.key_children[j + 1].child
                                      ELSE parent.right_child)
            /\ at = {} => (~ret'.panic /\ ret'.end_of_table)]_vars

(***************************************************************************)
(* The tree while the table is open                                        *)
(***************************************************************************)
\* The keys a cached node holds: a leaf's keys, an Internal node's listed
\* keys.
NodeKeys(n) ==
    IF IsLeaf(n) THEN {n.key_values[i].key : i \in 1..Len(n.key_values)}
    ELSE {n.key_children[i].key : i \in 1..Len(n.key_children)}

InternalPages == {p \in DOMAIN pages : IsInternal(pages[p])}
LeafPages == {p \in DOMAIN pages : IsLeaf(pages[p])}

\* C22: while the table is open, every Internal node's cells are strictly
\* ascending by key, every key held by a cell's child is <= the cell's key,
\* and every key held by right_child is greater than every key the node
\* lists.
C22_InternalOrdered ==
    status = "open" =>
        \A p \in InternalPages :
            /\ \A i \in 1..(Len(pages[p].key_children) - 1) :
                  pages[p].key_children[i].key < pages[p].key_children[i + 1].key
            /\ \A i \in 1..Len(pages[p].key_children) :
                  pages[p].key_children[i].child \in DOMAIN pages
                  => \A k \in NodeKeys(pages[pages[p].key_children[i].child]) :
                        k <= pages[p].key_children[i].key
            /\ pages[p].right_child \in DOMAIN pages
                  => \A k \in NodeKeys(pages[pages[p].right_child]), j \in NodeKeys(pages[p]) :
                        k > j

\* The Internal node at page q lists page p as a cell's child or as
\* right_child.
Lists(q, p) ==
    /\ q \in InternalPages
    /\ \/ pages[q].right_child = p
       \/ \E i \in 1..Len(pages[q].key_children) : pages[q].key_children[i].child = p

\* The parent field of page p names the Internal node that lists p.
ParentLists(p) == Lists(pages[p].parent, p)

References(n, p) ==
    (IF n.right_child = p THEN 1 ELSE 0)
    + Cardinality({i \in 1..Len(n.key_children) : n.key_children[i].child = p})

\* C25: after split_and_insert on a full leaf that is not the root, be it
\* right_child or the child of a cell, its parent names the original page
\* once and the new page once.
C25_BothHalvesReferenced ==
    (ret.done /\ SplitLeaf.is_root = 0) =>
        /\ ~ret.panic
        /\ References(pages[SplitLeaf.parent], arg.page_num) = 1
        /\ References(pages[SplitLeaf.parent], NewPage) = 1

(***************************************************************************)
(* Pager::get_page on its own: a pager over a file of whole pages, asked   *)
(* for pages in any order. arg is the last request.                        *)
(***************************************************************************)
InitGet ==
    /\ impl = "table"
    /\ status = "open"
    /\ disk \in UNION {[1..n -> PageImages] : n \in 0..MaxFilePages}
    /\ fpos = 0
    /\ file_length = FileLength(disk)
    /\ num_pages = InitialNumPages(FileLength(disk))
    /\ pages = NoPages
    /\ root_page_num = 0
    /\ last = NoOp
    /\ rows = <<>>
    /\ acked = {}
    /\ persisted = {}
    /\ sessions = 1
    /\ arg = [n |-> 0, cached |-> FALSE]
    /\ ret = [done |-> FALSE, panic |-> FALSE]

\* get_page(n) left the pager as pg.
Got(pg, n) ==
    /\ pages' = pg.pages
    /\ fpos' = pg.fpos
    /\ arg' = [n |-> n, cached |-> n \in DOMAIN pages]
    /\ ret' = [done |-> TRUE, panic |-> pg.panic]

\* pager.get_page(n)
Get ==
    /\ ~ret.panic
    /\ \E n \in 0..(MaxFilePages + 1) : Got(GetPage(ThePager, n), n)
    /\ UNCHANGED <<impl, status, disk, file_length, num_pages, root_page_num, last,
                   rows, acked, persisted, sessions>>

NextGet == Get

SpecGet == InitGet /\ [][NextGet]_vars

\* The PAGE_SIZE bytes of the file at offset n * PAGE_SIZE, zero past its
\* end.
FileAt(n) == IF n < Len(disk) THEN disk[n + 1] ELSE ZeroBuf(PAGE_SIZE)

\* C26: get_page(n) returns the cached node when page n is cached;
\* otherwise, whatever was read before, the node it caches is the
\* deserialization of the file's bytes at offset n * PAGE_SIZE, bytes past
\* the end of the file being zero.
C26_GetPageReadsOwnOffset ==
    [][\A n \in 0..(MaxFilePages + 1) :
          (ret'.done /\ arg'.n = n /\ (arg' # arg \/ pages' # pages \/ ret' # ret))
          => /\ ~ret'.panic
             /\ n \in DOMAIN pages'
             /\ pages'[n] = (IF n \in DOMAIN pages THEN pages[n]
                             ELSE Deserialize(FileAt(n)).node)]_vars

(***************************************************************************)
(* The pages of the open table over table.rs                               *)
(***************************************************************************)
\* C27: whenever an insert over table.rs splits a leaf, the page that
\* get_page loads for the new right page number is an empty leaf that is
\* not flagged root: nothing else in the file is read for it.
C27_NewPageIsEmptyLeaf ==
    [][(impl = "table" /\ last'.op = "insert" /\ num_pages' > num_pages)
         => /\ num_pages \notin DOMAIN pages
            /\ ~GetPage(ThePager, num_pages).panic
            /\ GetPage(ThePager, num_pages).pages[num_pages] = LeafNode(0, 0, 0, <<>>)]_vars

\* A leaf was split in a table opened from a file of one page, so that the
\* new pages lie beyond what the file held when it was opened.
C27_Witness ==
    /\ impl = "table"
    /\ status = "open"
    /\ sessions = 2
    /\ Len(disk) = 1
    /\ file_length = PAGE_SIZE
    /\ num_pages > 2
    /\ 1 \in LeafPages
    /\ Len(pages[1].key_values) > 0

\* C28: while the table over table.rs is open every page number below
\* num_pages has a cached node, and its close never returns the
\* page-not-exists error.
C28_AllPagesCached ==
    /\ (impl = "table" /\ status = "open") => \A p \in 0..(num_pages - 1) : p \in DOMAIN pages
    /\ (impl = "table" /\ last.op = "close") => last.result = "Ok"

\* The table was closed after two splits.
C28_Witness ==
    /\ impl = "table"
    /\ last.op = "close"
    /\ last.result = "Ok"
    /\ num_pages > 3
    /\ Len(disk) = num_pages

\* C29: while the table over table.rs is open, find_insert_position from
\* the root returns for every key, and the cursor it returns is on a Leaf
\* page.
C29_DescentEndsOnLeaf ==
    (impl = "table" /\ status = "open") =>
        \A key \in Keys :
            /\ ~CursorFindInsertPosition(ThePager, root_page_num, key, 0).pg.panic
            /\ CursorFindInsertPosition(ThePager, root_page_num, key, 0).page_num \in LeafPages

\* The root is an Internal node and the descent for key 1 ends on its
\* right_child.
C29_Witness ==
    /\ impl = "table"
    /\ status = "open"
    /\ root_page_num \in InternalPages
    /\ pages[root_page_num].num_keys > 1
    /\ CursorFindInsertPosition(ThePager, root_page_num, 1, 0).page_num
           = pages[root_page_num].right_child
    /\ pages[root_page_num].right_child \in LeafPages

\* C30: from a cursor on any leaf of a tree grown by splits of the
\* rightmost leaf, a scan that goes on calling advance reaches end_of_table
\* without a panic: the walk over the siblings does not cycle.
C30_AdvanceReachesEnd == <>(ret.end_of_table /\ ~ret.panic)

\* A walk that started on the first leaf under a root of MaxInternalCells
\* cells has ended on the root's right_child.
C30_Witness ==
    /\ arg = 0
    /\ Len(pages[2].key_children) = MaxInternalCells
    /\ ret.end_of_table
    /\ ~ret.panic
    /\ ret.page_num = pages[2].right_child

(***************************************************************************)
(* The command loop and the file                                           *)
(***************************************************************************)
\* The errors execute_statement returns.
ExecuteErrors ==
    {"TableFull", "InvalidStatement", "DuplicateKey", "PageNotFound", "PageMutFailure"}

\* C31: the command loop of main.rs writes to the file only when it
\* processes .exit; a statement that returns an execute error ends the loop
\* with the file and the persisted rows as they were, and no close follows:
\* the next step is a new session's open.
C31_WritesOnlyOnExit ==
    [][impl = "main" =>
         /\ disk' # disk => last'.op = "close"
         /\ (last'.op \in {"insert", "select"} /\ last'.result \in ExecuteErrors)
                => (status' = "ended" /\ disk' = disk /\ persisted' = persisted)
         /\ status = "ended" => (last'.op = "open" /\ disk' = disk)]_vars

\* A session of main.rs ended on an execute error after an insert it had
\* acknowledged: the row is not persisted and the file is still empty.
C31_Witness ==
    /\ impl = "main"
    /\ status = "ended"
    /\ last.result \in ExecuteErrors
    /\ acked \ persisted # {}
    /\ disk = <<>>

(***************************************************************************)
(* What a split leaves alone                                               *)
(***************************************************************************)
\* The pages split_and_insert may write: the split leaf, its parent when it
\* had one, and the pages new_page_num handed out.
SplitWrites ==
    {arg.page_num}
    \cup (IF SplitLeaf.is_root > 0 THEN {} ELSE {SplitLeaf.parent})
    \cup (NewPage..(IF SplitLeaf.is_root > 0 THEN NewPage + 1 ELSE NewPage))

\* C32: split_and_insert changes only the split leaf, the new page(s) and
\* the split leaf's parent: every other page cached before the call is the
\* same node after it, and the only pages added are the new ones.
C32_SplitFrame ==
    ret.done =>
        /\ ~ret.panic
        /\ \A p \in DOMAIN arg.before \ SplitWrites :
              p \in DOMAIN pages /\ pages[p] = arg.before[p]
        /\ DOMAIN pages \ DOMAIN arg.before \subseteq SplitWrites

\* Leaf 0 under the root was split while its sibling, the root's
\* right_child, was cached: the sibling is as it was.
C32_Witness ==
    /\ ret.done
    /\ SplitLeaf.is_root = 0
    /\ arg.page_num = 0
    /\ 1 \in DOMAIN arg.before \ SplitWrites
    /\ pages[1] = arg.before[1]
    /\ pages[0] # arg.before[0]
    /\ NewPage \in DOMAIN pages

(***************************************************************************)
(* A table over table.rs grown by ascending inserts: arg is the next key,  *)
(* ret tells whether the last insert panicked and what it returned.        *)
(***************************************************************************)
InitGrow ==
    /\ NoTable
    /\ root_page_num = 0
    /\ pages = [p \in {0} |-> LeafNode(1, 0, 0, <<>>)]
    /\ num_pages = 1
    /\ arg = 1
    /\ ret = [panic |-> FALSE, result |-> "none"]

\* The insert returned e, or panicked (the table is then as it was).
Grown(e) ==
    /\ ret' = [panic |-> e.pg.panic, result |-> e.result]
    /\ pages' = IF e.pg.panic THEN pages ELSE e.pg.pages
    /\ num_pages' = IF e.pg.panic THEN num_pages ELSE e.pg.num_pages
    /\ fpos' = IF e.pg.panic THEN fpos ELSE e.pg.fpos
    /\ root_page_num' = IF e.pg.panic THEN root_page_num ELSE e.root

\* insert <arg> ...: the next key, larger than every key of the table.
Grow ==
    /\ ~ret.panic
    /\ arg <= MaxGrowKey
    /\ Grown(ExecuteInsertTable(ThePager, root_page_num, TRUE, Row(arg, 1, 1)))
    /\ arg' = arg + 1
    /\ UNCHANGED <<impl, status, disk, file_length, last, rows, acked, persisted,
                   sessions>>

NextGrow == Grow

SpecGrow == InitGrow /\ [][NextGrow]_vars

\* C33: the page numbers new_page_num produces stay below TABLE_MAX_PAGES
\* after any sequence of splits, and no split indexes the slot table out
\* of bounds (which is a panic).
C33_PageNumbersBelowMax ==
    /\ ~ret.panic
    /\ num_pages <= TABLE_MAX_PAGES
    /\ \A p \in DOMAIN pages : p < TABLE_MAX_PAGES

(***************************************************************************)
(* Counts and cell lists                                                   *)
(***************************************************************************)
\* C34: in every cached node the count field equals the length of the cell
\* list: num_cells of a Leaf, num_keys of an Internal node.
C34_CountsMatchCells ==
    \A p \in DOMAIN pages :
        /\ IsLeaf(pages[p]) => pages[p].num_cells = Len(pages[p].key_values)
        /\ IsInternal(pages[p]) => pages[p].num_keys = Len(pages[p].key_children)

\* A table written with two splits and opened again: its nodes were built
\* by the deserializer, and the root lists two cells.
C34_Witness ==
    /\ impl = "table"
    /\ status = "open"
    /\ last.op = "open"
    /\ root_page_num \in InternalPages
    /\ pages[root_page_num].num_keys = 2
    /\ Len(pages[root_page_num].key_children) = 2
    /\ \E p \in LeafPages : pages[p].num_cells = LEAF_NODE_LEFT_SPLIT_COUNT

(***************************************************************************)
(* Nodes within capacity fit a page                                        *)
(***************************************************************************)
\* PAGE_SIZE of main.rs, which the model scales down.
SOURCE_PAGE_SIZE == 4096

\* The bytes of a Leaf and of an Internal node holding as many cells as a
\* page of `size` bytes allows by NODE_MAX_CELLS and INTERNAL_MAX_CELLS.
FullLeafBytes(size) ==
    LeafHeaderBytes + ((size - NODE_HEADER_SIZE) \div NODE_CELL_SIZE) * NODE_CELL_SIZE
FullInternalBytes(size) ==
    InternalHeaderBytes + ((size - 1 - 1 - 4 - 4 - 4) \div INTERNAL_CELL_SIZE) * INTERNAL_CELL_SIZE

\* C35: with the headers serialize writes, a Leaf of NODE_MAX_CELLS cells and
\* an Internal node of INTERNAL_MAX_CELLS cells need at most PAGE_SIZE bytes
\* (at the page size of the source and at the model's), and serialize
\* gives exactly PAGE_SIZE bytes for every node within capacity.
C35_CapacityFitsPage ==
    /\ FullLeafBytes(SOURCE_PAGE_SIZE) <= SOURCE_PAGE_SIZE
    /\ FullInternalBytes(SOURCE_PAGE_SIZE) <= SOURCE_PAGE_SIZE
    /\ FullLeafBytes(PAGE_SIZE) <= PAGE_SIZE
    /\ FullInternalBytes(PAGE_SIZE) <= PAGE_SIZE
    /\ SerializedBytes(pages[0]) <= PAGE_SIZE
    /\ ret.done => arg.len = PAGE_SIZE

\* An Internal node of INTERNAL_MAX_CELLS cells was serialized: its fields
\* take more than a page less one cell, and the buffer is one page.
C35_Witness ==
    /\ ret.done
    /\ IsInternal(pages[0])
    /\ Len(pages[0].key_children) = INTERNAL_MAX_CELLS
    /\ SerializedBytes(pages[0]) > PAGE_SIZE - INTERNAL_CELL_SIZE
    /\ arg.len = PAGE_SIZE

(***************************************************************************)
(* end_of_table of the cursors                                             *)
(***************************************************************************)
\* C36: the cursor Cursor::find_insert_position returns on a leaf has
\* end_of_table true if and only if its cell_num equals the leaf's cell
\* count.
C36_EndOfTableIffTail ==
    ret.done =>
        /\ ~ret.table.panic
        /\ ret.table.end_of_table <=> (ret.table.cell_num = pages[0].num_cells)

\* A key above every key of a full leaf was searched: the cursor is past
\* the last cell, with end_of_table.
C36_Witness ==
    /\ ret.done
    /\ pages[0].num_cells = NODE_MAX_CELLS
    /\ arg > pages[0].key_values[NODE_MAX_CELLS].key
    /\ ret.table.cell_num = NODE_MAX_CELLS
    /\ ret.table.end_of_table

\* C37: table_start puts the cursor on (root_page_num, 0), with
\* end_of_table true exactly when the root is a Leaf without cells.
C37_StartAtRoot ==
    status = "open" =>
        /\ ~TableStart(ThePager, root_page_num).pg.panic
        /\ TableStart(ThePager, root_page_num).page_num = root_page_num
        /\ TableStart(ThePager, root_page_num).cell_num = 0
        /\ TableStart(ThePager, root_page_num).end_of_table
               <=> (/\ IsLeaf(TableStart(ThePager, root_page_num).pg.pages[root_page_num])
                    /\ TableStart(ThePager, root_page_num).pg.pages[root_page_num].num_cells = 0)

\* The root is an Internal node: the cursor starts on it without
\* end_of_table.
C37_Witness ==
    /\ impl = "table"
    /\ status = "open"
    /\ root_page_num \in InternalPages
    /\ TableStart(ThePager, root_page_num).page_num = root_page_num
    /\ ~TableStart(ThePager, root_page_num).end_of_table

(***************************************************************************)
(* Page numbers are handed out once                                        *)
(***************************************************************************)
\* C38: new_page_num returns num_pages and then increments it: the pages an
\* insert over table.rs adds are exactly the numbers from the old num_pages
\* up to the new one, none of which was cached or in the file before, and
\* the insert does not panic.
C38_PageNumbersFresh ==
    [][(impl = "table" /\ status = "open" /\ last'.op = "insert") =>
         /\ status' # "aborted"
         /\ num_pages' >= num_pages
         /\ DOMAIN pages' \ DOMAIN pages = num_pages..(num_pages' - 1)
         /\ \A p \in num_pages..(num_pages' - 1) : p \notin DOMAIN pages /\ p >= Len(disk)
         /\ \A p \in DOMAIN pages : p < num_pages]_vars

\* A table of three pages written to the file was opened again and a leaf
\* of it was split: the new leaf is page 3.
C38_Witness ==
    /\ impl = "table"
    /\ status = "open"
    /\ last.op = "insert"
    /\ Len(disk) = 3
    /\ num_pages = 4
    /\ DOMAIN pages = 0..3

====
